---- MODULE Spec2Model ----
(***************************************************************************)
(* Model of the skill-search core of picoclaw (package skills):            *)
(*   - SearchCache: the trigram-similarity LRU/TTL cache of search results *)
(*   - RegistryManager: the fan-out aggregator over the skill registries   *)
(* Strings are sequences of byte codes, a slice is an address into `heap`  *)
(* (Go slices alias their backing array), durations are whole clock ticks. *)
(***************************************************************************)
EXTENDS Integers, Sequences, FiniteSets, TLC

(***************************************************************************)
(* Bounds of the model.                                                    *)
(***************************************************************************)
\* The clock stops advancing at MaxClock.
MaxClock == 2
\* The maxEntries argument given to NewSearchCache.
CfgMaxEntries == 2
\* The ttl argument given to NewSearchCache, in clock ticks.
CfgTTL == 2
\* The goroutines that call Get and Put on the one cache at the same time.
MaxCallers == 2
\* The trigram codes 0..MaxCode given to jaccardSimilarity on its own, and the
\* longest string given to buildTrigrams on its own.
MaxCode == 3
MaxLen == 4
\* The longest string given to Truncate on its own, and the longest asked for.
MaxRunes == 6

(***************************************************************************)
(* Program constants.                                                      *)
(***************************************************************************)
\* NewSearchCache: maxEntries = 50 when the argument is not positive.
defaultMaxEntries == 50
\* NewSearchCache: ttl = 5 * time.Minute when the argument is not positive
\* (in seconds).
defaultTTL == 300
\* similarityThreshold = 0.7, kept as the fraction 7 / 10.
similarityThresholdNum == 7
similarityThresholdDen == 10

(***************************************************************************)
(* Strings: byte codes.                                                    *)
(***************************************************************************)
\* "a", "ab", "b": shorter than three bytes, no trigram.
qA == <<97>>
qAB == <<97, 98>>
qB == <<98>>
\* "abcdefgh": the 6 trigrams abc bcd cde def efg fgh.
qABCDEFGH == <<97, 98, 99, 100, 101, 102, 103, 104>>
\* "abcdefghi": those and ghi (7 trigrams).
qABCDEFGHI == <<97, 98, 99, 100, 101, 102, 103, 104, 105>>
\* "abcdefghij": those and hij (8 trigrams).
qABCDEFGHIJ == <<97, 98, 99, 100, 101, 102, 103, 104, 105, 106>>
\* "abcdefghijkl": those and ijk, jkl (10 trigrams).
qABCDEFGHIJKL == <<97, 98, 99, 100, 101, 102, 103, 104, 105, 106, 107, 108>>
\* " Ab\t": normalizes to "ab".
qRawAB == <<32, 65, 98, 9>>
\* "" and "  ": normalize to the empty string.
qEmpty == <<>>
qBlank == <<32, 32>>

\* The queries callers pass to Put, and those they pass to Get.
PutQueries == {qEmpty, qBlank, qAB, qRawAB, qB, qABCDEFGHI, qABCDEFGHIJKL}
GetQueries == PutQueries \cup {qEmpty, qA, qABCDEFGH, qABCDEFGHIJ}

\* unicode.IsSpace on the ASCII range.
IsSpace(c) == c \in {9, 10, 11, 12, 13, 32}

\* strings.TrimSpace: drop leading and trailing white space.
RECURSIVE TrimLeft(_)
TrimLeft(s) ==
    IF s # <<>> /\ IsSpace(Head(s)) THEN TrimLeft(Tail(s)) ELSE s

RECURSIVE TrimRight(_)
TrimRight(s) ==
    IF s # <<>> /\ IsSpace(s[Len(s)])
    THEN TrimRight(SubSeq(s, 1, Len(s) - 1))
    ELSE s

TrimSpace(s) == TrimRight(TrimLeft(s))

\* strings.ToLower on the ASCII range: 'A'..'Z' become 'a'..'z'.
ToLower(s) ==
    [i \in 1..Len(s) |-> IF s[i] >= 65 /\ s[i] <= 90 THEN s[i] + 32 ELSE s[i]]

\* A normalizeQuery that forgets strings.TrimSpace.
normalizeQuery_noTrim(q) == ToLower(q)

normalizeQuery(q) == ToLower(TrimSpace(q))

(***************************************************************************)
(* Trigrams and similarity.                                                *)
(***************************************************************************)
\* A sort-and-deduplicate pass that keeps the duplicates.
Dedup_keepAll(s) == s

\* sort.Slice with less = (<): the ascending arrangement of a sequence.
RECURSIVE SortAsc(_)
SortAsc(s) ==
    IF s = <<>> THEN <<>>
    ELSE LET m == CHOOSE i \in 1..Len(s) : \A j \in 1..Len(s) : s[i] <= s[j]
         IN <<s[m]>> \o SortAsc(SubSeq(s, 1, m - 1) \o SubSeq(s, m + 1, Len(s)))

\* The deduplication pass over a sorted slice: keep an element when it
\* differs from its predecessor.
Dedup(s) ==
    LET keep(i) == i = 1 \/ s[i] # s[i - 1]
        idx == {i \in 1..Len(s) : keep(i)}
        RECURSIVE pick(_)
        pick(i) ==
            IF i > Len(s) THEN <<>>
            ELSE IF i \in idx THEN <<s[i]>> \o pick(i + 1) ELSE pick(i + 1)
    IN pick(1)

\* uint32(s[i])<<16 | uint32(s[i+1])<<8 | uint32(s[i+2]), bytes below 256.
TrigramCode(s, i) == s[i] * 65536 + s[i + 1] * 256 + s[i + 2]

buildTrigrams(s) ==
    IF Len(s) < 3 THEN <<>>
    ELSE Dedup(SortAsc([i \in 1..(Len(s) - 2) |-> TrigramCode(s, i)]))

\* buildTrigrams of every normalized query of the model, computed once.
TrigramTable == [s \in {normalizeQuery(q) : q \in GetQueries} |-> buildTrigrams(s)]

\* A similarity without the convention for two empty sets: 0 there.
jaccardSimilarity_noConvention(a, b) ==
    LET A == {a[i] : i \in 1..Len(a)}
        B == {b[i] : i \in 1..Len(b)}
    IN <<Cardinality(A \cap B),
         IF A \cup B = {} THEN 1 ELSE Cardinality(A \cup B)>>

\* The merge walk of jaccardSimilarity: the number of common elements.
RECURSIVE MergeWalk(_, _, _, _, _)
MergeWalk(a, b, i, j, intersection) ==
    IF i <= Len(a) /\ j <= Len(b)
    THEN IF a[i] = b[j] THEN MergeWalk(a, b, i + 1, j + 1, intersection + 1)
         ELSE IF a[i] < b[j] THEN MergeWalk(a, b, i + 1, j, intersection)
         ELSE MergeWalk(a, b, i, j + 1, intersection)
    ELSE intersection

\* jaccardSimilarity: the quotient intersection / union as the pair
\* <<numerator, denominator>>; 1 when both are empty.
jaccardSimilarity(a, b) ==
    IF Len(a) = 0 /\ Len(b) = 0 THEN <<1, 1>>
    ELSE LET intersection == MergeWalk(a, b, 1, 1, 0)
         IN <<intersection, Len(a) + Len(b) - intersection>>

\* Comparison of two quotients with positive denominators.
SimGT(x, y) == x[1] * y[2] > y[1] * x[2]
\* The threshold test written with > in place of >=.
SimGE_strict(x, y) == x[1] * y[2] > y[1] * x[2]

SimGE(x, y) == x[1] * y[2] >= y[1] * x[2]
similarityThreshold == <<similarityThresholdNum, similarityThresholdDen>>

(***************************************************************************)
(* SearchResult values and slices.                                         *)
(***************************************************************************)
r1 == [Slug |-> "github", Score |-> 9, RegistryName |-> "clawhub"]
r2 == [Slug |-> "docker", Score |-> 7, RegistryName |-> "clawhub"]

\* The result sequences callers pass to Put.
ResultLists == {<<r2, r1>>}

\* A caller's []SearchResult argument: nil, or a freshly built slice.
InputSlices ==
    {[nil |-> TRUE, val |-> <<>>]} \cup
    {[nil |-> FALSE, val |-> l] : l \in ResultLists}

\* The nil slice; every other slice is an address of a backing array.
NilSlice == 0

VARIABLES
    entries,     \* SearchCache.entries: key -> cacheEntry
    order,       \* SearchCache.order: LRU order, oldest first
    maxEntries,  \* SearchCache.maxEntries
    ttl,         \* SearchCache.ttl
    now,         \* the clock read by time.Now and time.Since
    heap,        \* backing arrays of the live slices: address -> elements
    call,        \* the Get or Put call that has just returned: its query, its
                 \* outcome, and the slice the caller holds from it (the one
                 \* passed to Put, the one got from Get); NoCall between calls
    putVal,      \* history: key -> the result sequence given to its last Put
    lastPut,     \* history: the last Put that stored an entry
    scmu,        \* SearchCache.mu: the goroutine that holds it, or NoHolder
    callers      \* the goroutines that call Get and Put concurrently: where
                 \* each is in its call, and its local variables

lockVars == <<scmu, callers>>
cacheVars == <<entries, order, maxEntries, ttl, now, heap, call, putVal, lastPut,
               lockVars>>

VARIABLES
    registries,     \* RegistryManager.registries
    maxConcurrent,  \* RegistryManager.maxConcurrent
    mu,             \* RegistryManager.mu: the SearchAll calls holding RLock
    sa,             \* the SearchAll calls: locals, units, channels, outcome
    lookup          \* the GetRegistry call that has just returned

regVars == <<registries, maxConcurrent, mu, sa, lookup>>

VARIABLES
    eval            \* a function of the package applied on its own: the
                    \* function, its arguments and what it returned

vars == <<cacheVars, regVars, eval>>

Range(s) == {s[i] : i \in 1..Len(s)}

\* The smallest address that is not in use.
Fresh(h) == CHOOSE a \in 1..(Cardinality(DOMAIN h) + 1) :
                a \notin DOMAIN h /\ \A b \in 1..(a - 1) : b \in DOMAIN h

\* The elements of a slice.
Value(h, results) == IF results = NilSlice THEN <<>> ELSE h[results]

\* The first occurrences of the elements of a sequence, in order.
RECURSIVE Distinct(_)
Distinct(s) ==
    IF s = <<>> THEN <<>>
    ELSE LET rest == Distinct(SubSeq(s, 1, Len(s) - 1))
         IN IF s[Len(s)] \in Range(rest) THEN rest ELSE Append(rest, s[Len(s)])

\* Garbage collection and compaction: the arrays reachable from the cache or
\* from the caller are kept and renumbered 1, 2, ... in the order in which
\* the recency order, the other entries and the caller reach them.  An
\* address is only ever compared for equality, so the numbering is free.
Compact(ents, ord, c, h) ==
    LET inOrder == SelectSeq(ord, LAMBDA k : k \in DOMAIN ents)
        others == DOMAIN ents \ Range(ord)
        rest == CHOOSE s \in [1..Cardinality(others) -> others] : Range(s) = others
        keys == inOrder \o rest
        roots == [i \in 1..Len(keys) |-> ents[keys[i]].results] \o <<c.results>>
        live == Distinct(SelectSeq(roots, LAMBDA a : a # NilSlice))
        to(a) == IF a = NilSlice THEN NilSlice
                 ELSE CHOOSE i \in 1..Len(live) : live[i] = a
    IN [entries |-> [k \in DOMAIN ents |-> [ents[k] EXCEPT !.results = to(@)]],
        call |-> [c EXCEPT !.results = to(@)],
        heap |-> [i \in 1..Len(live) |-> h[live[i]]]]

\* A copyResults that hands back the slice it was given.
copyResults_alias(h, results) == [heap |-> h, addr |-> results]

\* copyResults: nil for nil, else a new array holding the same elements.
\* Returns the heap after the allocation and the new slice.
copyResults(h, results) ==
    IF results = NilSlice THEN [heap |-> h, addr |-> NilSlice]
    ELSE LET cp == Fresh(h)
         IN [heap |-> [a \in DOMAIN h \cup {cp} |->
                         IF a = cp
                         THEN [i \in 1..Len(h[results]) |-> h[results][i]]
                         ELSE h[a]],
             addr |-> cp]

\* A NewSearchCache that takes its arguments as given.
NewSearchCache_asGiven(m, t) == [maxEntries |-> m, ttl |-> t]

\* NewSearchCache: non-positive arguments fall back to the defaults.
NewSearchCache(m, t) ==
    [maxEntries |-> IF m <= 0 THEN defaultMaxEntries ELSE m,
     ttl |-> IF t <= 0 THEN defaultTTL ELSE t]

\* A nil *cacheEntry.
NilEntry == [query |-> <<>>, trigrams |-> <<>>, results |-> NilSlice, createdAt |-> -1]
\* No call has returned.  Of a call: from is the key of the entry a Get hit
\* returned and pos the place that key had in order; swept and evicted are
\* the keys a Put deleted as expired and for capacity; updated tells that
\* a Put found its key in the map after the sweep.
NoCall == [op |-> "none", query |-> <<>>, hit |-> FALSE, results |-> NilSlice,
           from |-> <<>>, pos |-> 0, swept |-> {}, evicted |-> {},
           updated |-> FALSE]
NoPut == [key |-> <<>>, val |-> <<>>, at |-> -1]

\* An expiry test written with > in place of >=.
Expired_late(entry) == now - entry.createdAt > ttl

\* time.Since(entry.createdAt) >= ttl
Expired(entry) == now - entry.createdAt >= ttl

\* A moveToEndLocked that appends without dropping the old occurrence.
moveToEndLocked_dup(ord, key) == Append(ord, key)

\* A moveToEndLocked that leaves the order as it is.
moveToEndLocked_noop(ord, key) == ord

\* moveToEndLocked: drop the first occurrence of key, then append key.
moveToEndLocked(ord, key) ==
    LET found == {i \in 1..Len(ord) : ord[i] = key}
    IN IF found = {} THEN Append(ord, key)
       ELSE LET i == CHOOSE x \in found : \A y \in found : x <= y
            IN Append(SubSeq(ord, 1, i - 1) \o SubSeq(ord, i + 1, Len(ord)), key)

\* A sweep that deletes nothing.
evictExpiredLocked_none(ents, ord) == [entries |-> ents, order |-> ord]

\* evictExpiredLocked: walk order; a key without entry or with an expired
\* entry is deleted from entries and left out of the new order.
evictExpiredLocked(ents, ord) ==
    LET gone(key) == key \notin DOMAIN ents \/ Expired(ents[key])
        dropped == {key \in Range(ord) : gone(key)}
    IN [entries |-> [k \in DOMAIN ents \ dropped |-> ents[k]],
        order |-> SelectSeq(ord, LAMBDA key : ~gone(key))]

\* A Put that skips the eviction loop.
evictLRU_never(ents, ord) == [entries |-> ents, order |-> ord]

\* An eviction loop that deletes the tail of order (the most recently used).
RECURSIVE evictLRU_tail(_, _)
evictLRU_tail(ents, ord) ==
    IF Cardinality(DOMAIN ents) >= maxEntries /\ Len(ord) > 0
    THEN evictLRU_tail([k \in DOMAIN ents \ {ord[Len(ord)]} |-> ents[k]],
                       SubSeq(ord, 1, Len(ord) - 1))
    ELSE [entries |-> ents, order |-> ord]

\* The eviction loop of Put: while the map is at capacity and order is not
\* empty, delete the head of order.
RECURSIVE evictLRU(_, _)
evictLRU(ents, ord) ==
    IF Cardinality(DOMAIN ents) >= maxEntries /\ Len(ord) > 0
    THEN evictLRU([k \in DOMAIN ents \ {ord[1]} |-> ents[k]], Tail(ord))
    ELSE [entries |-> ents, order |-> ord]

\* The orders in which `for _, entry := range sc.entries` may visit the map.
IterationOrders(S) ==
    {it \in [1..Cardinality(S) -> S] : \A i, j \in 1..Cardinality(S) :
        it[i] = it[j] => i = j}

\* The similarity scan of Get over one iteration order.
RECURSIVE scanEntries(_, _, _, _, _)
scanEntries(it, i, queryTrigrams, bestEntry, bestSim) ==
    IF i > Len(it) THEN [bestEntry |-> bestEntry, bestSim |-> bestSim]
    ELSE LET entry == entries[it[i]]
         IN IF Expired(entry)
            THEN scanEntries(it, i + 1, queryTrigrams, bestEntry, bestSim)
            ELSE LET sim == jaccardSimilarity(queryTrigrams, entry.trigrams)
                 IN IF SimGT(sim, bestSim)
                    THEN scanEntries(it, i + 1, queryTrigrams, entry, sim)
                    ELSE scanEntries(it, i + 1, queryTrigrams, bestEntry, bestSim)

\* The state after a call: the cache, the caller's slice, the live arrays.
Returns(ents, ord, c, h) ==
    LET st == Compact(ents, ord, c, h)
    IN /\ entries' = st.entries
       /\ order' = ord
       /\ call' = st.call
       /\ heap' = st.heap

\* A miss that deletes the expired entries it met.
GetMiss_sweeps(query) ==
    LET swept == evictExpiredLocked(entries, order)
    IN Returns(swept.entries, swept.order,
               [NoCall EXCEPT !.op = "Get", !.query = query], heap)

\* Get returns (nil, false).
GetMiss(query) ==
    Returns(entries, order, [NoCall EXCEPT !.op = "Get", !.query = query], heap)

\* Get returns (copyResults(entry.results), true) after moveToEndLocked.
GetHit(query, entry) ==
    LET cp == copyResults(heap, entry.results)
        at == {i \in 1..Len(order) : order[i] = entry.query}
    IN Returns(entries, moveToEndLocked(order, entry.query),
               [NoCall EXCEPT !.op = "Get", !.query = query, !.hit = TRUE,
                              !.results = cp.addr, !.from = entry.query,
                              !.pos = IF at = {} THEN 0 ELSE CHOOSE i \in at : TRUE],
               cp.heap)

\* A Get without the exact lookup: the similarity scan alone.
Get_scanOnly(query) ==
    LET normalized == normalizeQuery(query)
    IN /\ call = NoCall
       /\ IF normalized = <<>> THEN GetMiss(query)
          ELSE \E best \in {scanEntries(it, 1, TrigramTable[normalized],
                                        NilEntry, <<0, 1>>) :
                                it \in IterationOrders(DOMAIN entries)} :
                 IF SimGE(best.bestSim, similarityThreshold)
                    /\ best.bestEntry # NilEntry
                 THEN GetHit(query, best.bestEntry)
                 ELSE GetMiss(query)
       /\ UNCHANGED <<maxEntries, ttl, now, putVal, lastPut, lockVars>>

\* SearchCache.Get
Get(query) ==
    LET normalized == normalizeQuery(query)
    IN /\ call = NoCall
       /\ IF normalized = <<>> THEN GetMiss(query)
          ELSE IF normalized \in DOMAIN entries /\ ~Expired(entries[normalized])
          THEN GetHit(query, entries[normalized])
          ELSE \E best \in {scanEntries(it, 1, TrigramTable[normalized],
                                        NilEntry, <<0, 1>>) :
                                it \in IterationOrders(DOMAIN entries)} :
                 IF SimGE(best.bestSim, similarityThreshold)
                    /\ best.bestEntry # NilEntry
                 THEN GetHit(query, best.bestEntry)
                 ELSE GetMiss(query)
       /\ UNCHANGED <<maxEntries, ttl, now, putVal, lastPut, lockVars>>

\* The entry Put stores.
newEntry(normalized, results) ==
    [query |-> normalized, trigrams |-> TrigramTable[normalized],
     results |-> results, createdAt |-> now]

\* A map store that leaves an entry already there as it is.
setEntry_keepOld(ents, normalized, entry) ==
    [k \in DOMAIN ents \cup {normalized} |->
        IF k \in DOMAIN ents THEN ents[k] ELSE entry]

\* The map after sc.entries[normalized] = entry.
setEntry(ents, normalized, entry) ==
    [k \in DOMAIN ents \cup {normalized} |->
        IF k = normalized THEN entry ELSE ents[k]]

\* A Put that stores under the empty key as under any other.
emptyQuery_never(normalized) == FALSE

\* normalized == ""
emptyQuery(normalized) == normalized = <<>>

\* SearchCache.Put; the caller builds the argument slice and keeps it.
Put(query, arg) ==
    LET normalized == normalizeQuery(query)
        results == IF arg.nil THEN NilSlice ELSE Fresh(heap)
        h1 == IF arg.nil THEN heap
              ELSE [a \in DOMAIN heap \cup {results} |->
                      IF a = results THEN arg.val ELSE heap[a]]
        c == [NoCall EXCEPT !.op = "Put", !.query = query, !.results = results]
        swept == evictExpiredLocked(entries, order)
        cp == copyResults(h1, results)
        stored == newEntry(normalized, cp.addr)
        evicted == evictLRU(swept.entries, swept.order)
        gone == DOMAIN entries \ DOMAIN swept.entries
    IN /\ call = NoCall
       /\ IF emptyQuery(normalized)
          THEN /\ Returns(entries, order, c, h1)
               /\ UNCHANGED <<putVal, lastPut>>
          ELSE /\ IF normalized \in DOMAIN swept.entries
                  THEN Returns(setEntry(swept.entries, normalized, stored),
                               moveToEndLocked(swept.order, normalized),
                               [c EXCEPT !.swept = gone, !.updated = TRUE],
                               cp.heap)
                  ELSE Returns(setEntry(evicted.entries, normalized, stored),
                               Append(evicted.order, normalized),
                               [c EXCEPT !.swept = gone,
                                         !.evicted = DOMAIN swept.entries
                                                     \ DOMAIN evicted.entries],
                               cp.heap)
               /\ putVal' = [k \in DOMAIN entries' |->
                               IF k = normalized THEN arg.val ELSE putVal[k]]
               /\ lastPut' = [key |-> normalized, val |-> arg.val, at |-> now]
       /\ UNCHANGED <<maxEntries, ttl, now, lockVars>>

\* SearchCache.Len
CacheLen == Cardinality(DOMAIN entries)

\* The caller overwrites the first element of the slice it holds
\* (original[0].Slug = "mutated").
Mutate ==
    /\ call.results # NilSlice
    /\ Len(heap[call.results]) > 0
    /\ heap[call.results][1].Slug # "mutated"
    /\ heap' = [heap EXCEPT ![call.results][1].Slug = "mutated"]
    /\ UNCHANGED <<entries, order, maxEntries, ttl, now, call, putVal, lastPut,
                   lockVars>>
    /\ UNCHANGED <<regVars, eval>>

\* The caller is done with the call and drops the slice it held.
Discard ==
    /\ call # NoCall
    /\ Returns(entries, order, NoCall, heap)
    /\ UNCHANGED <<maxEntries, ttl, now, putVal, lastPut, lockVars>>
    /\ UNCHANGED <<regVars, eval>>

\* Time passes between calls.
Tick ==
    /\ call = NoCall
    /\ now < MaxClock
    /\ now' = now + 1
    /\ UNCHANGED <<entries, order, maxEntries, ttl, heap, call, putVal, lastPut,
                   lockVars>>
    /\ UNCHANGED <<regVars, eval>>

\* The goroutines of the concurrent callers; nobody holds sc.mu.
Callers == 1..MaxCallers
NoHolder == 0
\* Of a Get: no result yet, or (nil, false).
NoResult == [hit |-> FALSE, val |-> <<>>]
\* The cache a call found when it took the lock (history).
NoPre == [vals |-> <<>>, order |-> <<>>]
\* A goroutine between two calls.  In a call: normalized is the local of
\* that name, arg the results given to Put, entry the *cacheEntry that Get
\* holds (entry, bestEntry), ret what Get returns.
IdleCaller ==
    [pc |-> "idle", op |-> "none", query |-> <<>>, normalized |-> <<>>,
     arg |-> [nil |-> TRUE, val |-> <<>>], entry |-> NilEntry,
     ret |-> NoResult, pre |-> NoPre]

CacheInit ==
    /\ entries = <<>>
    /\ order = <<>>
    /\ maxEntries = NewSearchCache(CfgMaxEntries, CfgTTL).maxEntries
    /\ ttl = NewSearchCache(CfgMaxEntries, CfgTTL).ttl
    /\ now = 0
    /\ heap = <<>>
    /\ call = NoCall
    /\ putVal = <<>>
    /\ lastPut = NoPut
    /\ scmu = NoHolder
    /\ callers = [t \in Callers |-> IdleCaller]

DoGet == \E query \in GetQueries : Get(query) /\ UNCHANGED <<regVars, eval>>
DoPut ==
    \E query \in PutQueries, arg \in InputSlices :
        Put(query, arg) /\ UNCHANGED <<regVars, eval>>

CacheNext == DoGet \/ DoPut \/ Mutate \/ Discard \/ Tick

(***************************************************************************)
(* SearchCache under concurrent callers: Get and Put statement by          *)
(* statement, between sc.mu.Lock() and the deferred sc.mu.Unlock().        *)
(***************************************************************************)
\* The queries of the concurrent callers.
ConcurrentPuts == {qAB, qB, qABCDEFGHI}
ConcurrentGets == {qRawAB, qABCDEFGH, qBlank}

\* What a caller can see of the cache: the stored values, not the addresses.
Stored(ents, ord, h) ==
    [vals |-> [k \in DOMAIN ents |->
                 [val |-> Value(h, ents[k].results),
                  createdAt |-> ents[k].createdAt]],
     order |-> ord]

\* Garbage collection: the arrays reachable from the map or from an entry a
\* caller holds are kept and renumbered 1, 2, ... in their order.
Reclaim(ents, cs, h) ==
    LET live == ({ents[k].results : k \in DOMAIN ents}
                   \cup {cs[t].entry.results : t \in Callers}) \ {NilSlice}
        to(a) == IF a = NilSlice THEN NilSlice
                 ELSE Cardinality({b \in live : b <= a})
    IN [entries |-> [k \in DOMAIN ents |-> [ents[k] EXCEPT !.results = to(@)]],
        callers |-> [t \in Callers |-> [cs[t] EXCEPT !.entry.results = to(@)]],
        heap |-> [i \in 1..Cardinality(live) |->
                    h[CHOOSE a \in live : to(a) = i]]]

\* The state after a statement of a call.
Leaves(ents, ord, cs, h) ==
    LET st == Reclaim(ents, cs, h)
    IN /\ entries' = st.entries
       /\ order' = ord
       /\ callers' = st.callers
       /\ heap' = st.heap

\* A mutex that lets everybody in.
lockFree_always(holder) == TRUE

\* sc.mu.Lock() returns when nobody holds the mutex.
lockFree(holder) == holder = NoHolder

\* A goroutine calls Get or Put: normalizeQuery, and the return at once for
\* an empty normalized query, which touches nothing.
Enter(t, op, query, arg) ==
    LET normalized == normalizeQuery(query)
    IN /\ callers[t].pc = "idle"
       /\ IF normalized = <<>> THEN UNCHANGED callers
          ELSE callers' = [callers EXCEPT ![t] =
                             [IdleCaller EXCEPT !.pc = "lock", !.op = op,
                                                !.query = query,
                                                !.normalized = normalized,
                                                !.arg = arg]]
       /\ UNCHANGED <<entries, order, maxEntries, ttl, now, heap, call, putVal,
                      lastPut, scmu, regVars, eval>>

\* sc.mu.Lock()
Lock(t) ==
    /\ callers[t].pc = "lock"
    /\ lockFree(scmu)
    /\ scmu' = t
    /\ callers' = [callers EXCEPT ![t].pc = IF callers[t].op = "Get"
                                            THEN "lookup" ELSE "sweep",
                                  ![t].pre = Stored(entries, order, heap)]
    /\ UNCHANGED <<entries, order, maxEntries, ttl, now, heap, call, putVal,
                   lastPut, regVars, eval>>

\* Get: the exact match, else the similarity scan; (nil, false) on a miss.
GetLookup(t) ==
    LET normalized == callers[t].normalized
        found(entry) == [callers EXCEPT ![t].pc = "move", ![t].entry = entry]
        missed == [callers EXCEPT ![t].pc = "unlock", ![t].ret = NoResult]
    IN /\ callers[t].pc = "lookup"
       /\ IF normalized \in DOMAIN entries /\ ~Expired(entries[normalized])
          THEN callers' = found(entries[normalized])
          ELSE \E best \in {scanEntries(it, 1, TrigramTable[normalized],
                                        NilEntry, <<0, 1>>) :
                                it \in IterationOrders(DOMAIN entries)} :
                 IF SimGE(best.bestSim, similarityThreshold)
                    /\ best.bestEntry # NilEntry
                 THEN callers' = found(best.bestEntry)
                 ELSE callers' = missed
       /\ UNCHANGED <<entries, order, maxEntries, ttl, now, heap, call, putVal,
                      lastPut, scmu, regVars, eval>>

\* Get: sc.moveToEndLocked of the entry found.
GetMove(t) ==
    /\ callers[t].pc = "move"
    /\ order' = moveToEndLocked(order, callers[t].entry.query)
    /\ callers' = [callers EXCEPT ![t].pc = "copy"]
    /\ UNCHANGED <<entries, maxEntries, ttl, now, heap, call, putVal, lastPut,
                   scmu, regVars, eval>>

\* Get: return copyResults(entry.results), true.
GetCopy(t) ==
    LET cp == copyResults(heap, callers[t].entry.results)
    IN /\ callers[t].pc = "copy"
       /\ Leaves(entries, order,
                 [callers EXCEPT ![t].pc = "unlock",
                                 ![t].entry = NilEntry,
                                 ![t].ret = [hit |-> TRUE,
                                             val |-> Value(cp.heap, cp.addr)]],
                 heap)
       /\ UNCHANGED <<maxEntries, ttl, now, call, putVal, lastPut, scmu, regVars, eval>>

\* Put: sc.evictExpiredLocked()
PutSweep(t) ==
    LET swept == evictExpiredLocked(entries, order)
    IN /\ callers[t].pc = "sweep"
       /\ Leaves(swept.entries, swept.order,
                 [callers EXCEPT ![t].pc = "store"], heap)
       /\ UNCHANGED <<maxEntries, ttl, now, call, putVal, lastPut, scmu, regVars, eval>>

\* Put: the entry is stored in the map, over the old one when the key is
\* there, else after the eviction loop.
PutStore(t) ==
    LET normalized == callers[t].normalized
        arg == callers[t].arg
        results == IF arg.nil THEN NilSlice ELSE Fresh(heap)
        h1 == IF arg.nil THEN heap
              ELSE [a \in DOMAIN heap \cup {results} |->
                      IF a = results THEN arg.val ELSE heap[a]]
        cp == copyResults(h1, results)
        stored == newEntry(normalized, cp.addr)
        evicted == evictLRU(entries, order)
    IN /\ callers[t].pc = "store"
       /\ IF normalized \in DOMAIN entries
          THEN Leaves(setEntry(entries, normalized, stored), order,
                      [callers EXCEPT ![t].pc = "touch"], cp.heap)
          ELSE Leaves(setEntry(evicted.entries, normalized, stored),
                      evicted.order,
                      [callers EXCEPT ![t].pc = "append"], cp.heap)
       /\ UNCHANGED <<maxEntries, ttl, now, call, putVal, lastPut, scmu, regVars, eval>>

\* Put: sc.moveToEndLocked(normalized) after an update, the append to
\* sc.order after an insertion.
PutOrder(t) ==
    /\ callers[t].pc \in {"touch", "append"}
    /\ order' = IF callers[t].pc = "touch"
                THEN moveToEndLocked(order, callers[t].normalized)
                ELSE Append(order, callers[t].normalized)
    /\ callers' = [callers EXCEPT ![t].pc = "unlock"]
    /\ UNCHANGED <<entries, maxEntries, ttl, now, heap, call, putVal, lastPut,
                   scmu, regVars, eval>>

\* The deferred sc.mu.Unlock(); the call returns.
Unlock(t) ==
    /\ callers[t].pc = "unlock"
    /\ scmu' = NoHolder
    /\ callers' = [callers EXCEPT ![t] = IdleCaller]
    /\ UNCHANGED <<entries, order, maxEntries, ttl, now, heap, call, putVal,
                   lastPut, regVars, eval>>

\* Time passes.  A call reads the clock as of one instant, as Get and Put
\* above do.
Elapse ==
    /\ scmu = NoHolder
    /\ now < MaxClock
    /\ now' = now + 1
    /\ UNCHANGED <<entries, order, maxEntries, ttl, heap, call, putVal, lastPut,
                   lockVars, regVars, eval>>

DoEnterGet ==
    \E t \in Callers, query \in ConcurrentGets :
        Enter(t, "Get", query, IdleCaller.arg)
DoEnterPut ==
    \E t \in Callers, query \in ConcurrentPuts, arg \in InputSlices :
        Enter(t, "Put", query, arg)
ConcurrentNext ==
    \/ DoEnterGet
    \/ DoEnterPut
    \/ \E t \in Callers : Lock(t)
    \/ \E t \in Callers : GetLookup(t)
    \/ \E t \in Callers : GetMove(t)
    \/ \E t \in Callers : GetCopy(t)
    \/ \E t \in Callers : PutSweep(t)
    \/ \E t \in Callers : PutStore(t)
    \/ \E t \in Callers : PutOrder(t)
    \/ \E t \in Callers : Unlock(t)
    \/ Elapse

(***************************************************************************)
(* Notions the properties are stated in, defined apart from the code.      *)
(***************************************************************************)
\* The normal form of a query: surrounding white space dropped, lower case.
NormalForm(q) ==
    LET idx == {i \in 1..Len(q) : q[i] \notin {9, 10, 11, 12, 13, 32}}
    IN IF idx = {} THEN <<>>
       ELSE LET lo == CHOOSE i \in idx : \A j \in idx : i <= j
                hi == CHOOSE i \in idx : \A j \in idx : i >= j
            IN [i \in 1..(hi - lo + 1) |->
                  IF q[lo + i - 1] \in 65..90 THEN q[lo + i - 1] + 32
                  ELSE q[lo + i - 1]]

\* The set of the three-character windows of a string.
TrigramSet(s) == {SubSeq(s, i, i + 2) : i \in 1..(Len(s) - 2)}

\* |A n B| / |A u B| as <<numerator, denominator>>, 1 for two empty sets.
Jaccard(A, B) ==
    IF A \cup B = {} THEN <<1, 1>>
    ELSE <<Cardinality(A \cap B), Cardinality(A \cup B)>>

\* x >= y for two such quotients.
AtLeast(x, y) == x[1] * y[2] >= y[1] * x[2]

\* The similarity of a query and a stored key.
Sim(q, k) == Jaccard(TrigramSet(NormalForm(q)), TrigramSet(k))

\* Key k has an entry younger than the TTL.
Live(k) == k \in DOMAIN entries /\ now - entries[k].createdAt < ttl
LiveKeys == {k \in DOMAIN entries : Live(k)}

\* The results stored under key k, and what a caller can observe of the map.
StoredVal(k) == Value(heap, entries[k].results)
CacheView ==
    [k \in DOMAIN entries |->
        [val |-> StoredVal(k), createdAt |-> entries[k].createdAt]]

\* a stands before b in the sequence.
Before(ord, x, y) ==
    \E i, j \in 1..Len(ord) : i < j /\ ord[i] = x /\ ord[j] = y

\* This step is a Get call, a Put call; what the Get returns.
IsGet == call = NoCall /\ call'.op = "Get"
IsPut == call = NoCall /\ call'.op = "Put"
Returned == Value(heap', call'.results)

(***************************************************************************)
(* Properties of SearchCache.                                              *)
(***************************************************************************)
\* C1: after any sequence of Put and Get calls, Len never exceeds maxEntries.
C1_LenWithinMax == CacheLen <= maxEntries

\* A Put evicted for capacity and the cache is full.
C1_Witness == call.op = "Put" /\ call.evicted # {} /\ CacheLen = maxEntries

\* C2: the recency order holds every key of the entry map exactly once and
\* no key that has no entry.
C2_OrderMatchesEntries ==
    /\ Range(order) = DOMAIN entries
    /\ Len(order) = Cardinality(DOMAIN entries)

\* A Put swept expired entries and two entries are in the cache.
C2_Witness == call.op = "Put" /\ call.swept # {} /\ Len(order) = 2

\* C3: a Get hit returns the results of an entry younger than the TTL, by
\* the exact lookup and by the similarity scan alike; when the only entry is
\* the one under the query's key and it has reached the TTL, Get misses.
C3_NoExpiredHit ==
    [][IsGet =>
        /\ call'.hit =>
             /\ Live(call'.from)
             /\ Returned = StoredVal(call'.from)
        /\ (DOMAIN entries = {NormalForm(call'.query)}
            /\ ~Live(NormalForm(call'.query))) => ~call'.hit]_vars

\* Get missed on a query whose own entry, the only one, has expired.
C3_Witness ==
    /\ call.op = "Get"
    /\ ~call.hit
    /\ DOMAIN entries = {NormalForm(call.query)}

\* C4: Get(q1) after Put(q2, R), the two queries having the same non-empty
\* normal form, less than the TTL elapsed and no Put in between, is a hit
\* that returns exactly R.
C4_ExactHitReturnsPut ==
    [][(/\ IsGet
        /\ lastPut # NoPut
        /\ NormalForm(call'.query) = lastPut.key
        /\ now - lastPut.at < ttl)
       => call'.hit /\ Returned = lastPut.val]_vars

\* Get with a query that differs from its normal form hit the entry of the
\* last Put, which holds two results and was stored a tick ago.
C4_Witness ==
    /\ call.op = "Get"
    /\ call.hit
    /\ call.query # NormalForm(call.query)
    /\ lastPut.key = NormalForm(call.query)
    /\ Len(lastPut.val) = 2
    /\ now > lastPut.at

\* What C5 says of a Get of query q that returns call'.
C5_Body(q) ==
    /\ call'.hit <=> \E k \in LiveKeys : AtLeast(Sim(q, k), <<7, 10>>)
    /\ call'.hit =>
         /\ call'.from \in LiveKeys
         /\ \A k \in LiveKeys : AtLeast(Sim(q, call'.from), Sim(q, k))
         /\ Returned = StoredVal(call'.from)
    /\ ~call'.hit => call'.results = NilSlice

\* C5 as claimed: when no unexpired entry is stored under the normalized key
\* of q, Get(q) is a hit if and only if some unexpired entry has similarity
\* at or above 0.7 with q, and it returns the results of an unexpired entry of
\* maximal similarity; otherwise it is a miss returning no results.
C5_Original ==
    [][(IsGet /\ ~Live(NormalForm(call'.query))) => C5_Body(call'.query)]_vars

\* C5 amended: the same, for a query whose normal form is not empty.
C5_SimilarityHit ==
    [][(/\ IsGet
        /\ NormalForm(call'.query) # <<>>
        /\ ~Live(NormalForm(call'.query)))
       => C5_Body(call'.query)]_vars

\* Get hit by similarity while another unexpired entry was also at or above
\* the threshold, with a smaller similarity.
C5_Witness ==
    /\ call.op = "Get"
    /\ call.hit
    /\ call.from # NormalForm(call.query)
    /\ \E k \in LiveKeys :
         /\ AtLeast(Sim(call.query, k), <<7, 10>>)
         /\ ~AtLeast(Sim(call.query, k), Sim(call.query, call.from))

\* C6: a Get that misses leaves the entry map and the recency order as they
\* were, and a Get whose normalized query is empty misses.
C6_MissChangesNothing ==
    [][IsGet =>
        /\ ~call'.hit => (CacheView' = CacheView /\ order' = order)
        /\ NormalForm(call'.query) = <<>> => ~call'.hit]_vars

\* Get of a blank query missed although an unexpired entry has, like the
\* query, no trigram, and an expired entry is still in the map.
C6_Witness ==
    /\ call.op = "Get"
    /\ ~call.hit
    /\ NormalForm(call.query) = <<>>
    /\ \E k \in LiveKeys : Len(k) < 3
    /\ LiveKeys # DOMAIN entries

\* What C7 says of a Put under key `key`.
C7_Body(key) ==
    /\ DOMAIN entries' = (DOMAIN entries \ {order[1]}) \cup {key}
    /\ order' = Append(Tail(order), key)
    /\ \A k \in DOMAIN entries \ {order[1]} : CacheView'[k] = CacheView[k]

\* C7 as claimed: when the cache holds maxEntries unexpired entries and Put
\* is called with a normalized key that is not present, exactly one entry is
\* removed, the head of the recency order, and the new key becomes the tail.
C7_Original ==
    [][(/\ IsPut
        /\ NormalForm(call'.query) \notin DOMAIN entries
        /\ Cardinality(LiveKeys) = maxEntries)
       => C7_Body(NormalForm(call'.query))]_vars

\* C7 amended: the same, for a normalized key that is not empty.
C7_EvictsHead ==
    [][(/\ IsPut
        /\ NormalForm(call'.query) # <<>>
        /\ NormalForm(call'.query) \notin DOMAIN entries
        /\ Cardinality(LiveKeys) = maxEntries)
       => C7_Body(NormalForm(call'.query))]_vars

\* Put of a new key into a full cache of unexpired entries has evicted one.
C7_Witness ==
    /\ call.op = "Put"
    /\ Cardinality(call.evicted) = 1
    /\ call.swept = {}
    /\ CacheLen = maxEntries
    /\ order[Len(order)] = NormalForm(call.query)

\* C8: a Get hit moves the returned entry to the most recently used end of
\* the recency order, and a Put removes an unexpired entry only if every
\* entry it keeps was used more recently.
C8_HitRefreshesRecency ==
    [][/\ (IsGet /\ call'.hit) =>
            order' = Append(SelectSeq(order, LAMBDA k : k # call'.from),
                            call'.from)
       /\ IsPut =>
            \A e \in LiveKeys \ DOMAIN entries' :
              \A k \in (DOMAIN entries \cap DOMAIN entries') :
                Before(order, e, k)]_vars

\* Get hit the least recently used entry of a full cache, which is now the
\* most recently used one.
C8_Witness ==
    /\ call.op = "Get"
    /\ call.hit
    /\ call.pos = 1
    /\ Len(order) = maxEntries
    /\ Len(order) >= 2
    /\ order[Len(order)] = call.from

\* C9: an entry's stored results are those given to its Put, whatever the
\* caller does to the slice it passed to Put or got from Get, and a Get hit
\* returns them.
C9_CopyIsolation ==
    [][/\ \A k \in DOMAIN entries' :
            Value(heap', entries'[k].results) = putVal'[k]
       /\ (IsGet /\ call'.hit) => Returned = putVal[call'.from]]_vars

\* The caller has overwritten the first element of the slice it passed to
\* Put, and the entry still holds the element as given.
C9_Witness ==
    /\ call.op = "Put"
    /\ call.results # NilSlice
    /\ heap[call.results][1].Slug = "mutated"
    /\ NormalForm(call.query) \in DOMAIN entries
    /\ StoredVal(NormalForm(call.query))[1].Slug # "mutated"

(***************************************************************************)
(* RegistryManager: the registries and the fan-out of SearchAll.           *)
(***************************************************************************)
\* Bounds: registered backends, SearchAll calls in progress, and goroutines
\* of all the calls in progress together.
MaxRegistries == 2
MaxCalls == 2
MaxGoroutines == 2

defaultMaxConcurrentSearches == 2

\* The SkillRegistry handles, what Name returns and what Search returns when
\* it succeeds.  Handles 1 and 2 share a name.
Backends == {1, 2, 3}
BackendName(r) == IF r = 3 THEN "mirror" ELSE "clawhub"
BackendResults(r) ==
    CASE r = 1 -> <<[Slug |-> "a", Score |-> 1, RegistryName |-> "clawhub"],
                    [Slug |-> "b", Score |-> 2, RegistryName |-> "clawhub"]>>
      [] r = 2 -> <<[Slug |-> "c", Score |-> 2, RegistryName |-> "clawhub"],
                    [Slug |-> "d", Score |-> 2, RegistryName |-> "clawhub"]>>
      [] OTHER -> <<>>

\* RegistryConfig.MaxConcurrentSearches, the names asked of GetRegistry and
\* the limits given to SearchAll.
ConcurrencySettings == {0, 1}
Names == {"clawhub", "absent"}
Limits == {0, 1, 3}
Calls == 1..MaxCalls

\* A nil SkillRegistry, a nil error.
NilRegistry == 0
NoErr == [kind |-> "nil", of |-> NilRegistry]

\* NewRegistryManager, NewRegistryManagerFromConfig (ClawHub not enabled).
NewRegistryManager ==
    [registries |-> <<>>, maxConcurrent |-> defaultMaxConcurrentSearches]
NewRegistryManagerFromConfig(MaxConcurrentSearches) ==
    [NewRegistryManager EXCEPT
        !.maxConcurrent = IF MaxConcurrentSearches > 0
                          THEN MaxConcurrentSearches ELSE @]

\* A SearchAll call that has not started, one that has not returned, and no
\* GetRegistry call.  Of a call: units[i] is the goroutine of regs[i], with
\* its place in the code, whether it holds a slot of sem and
\* what it reported (outcome); invoked[i] counts the calls of regs[i].Search;
\* logged holds the slog.Warn records, each with the unit that wrote it;
\* received lists the units in the order the collector got their outcomes.
NoRet == [results |-> <<>>, err |-> "pending", wraps |-> NoErr]
IdleCall ==
    [pc |-> "idle", limit |-> 0, regs |-> <<>>, ctxDone |-> FALSE, sem |-> 0,
     resultsCh |-> <<>>, closed |-> FALSE, wg |-> 0, units |-> <<>>,
     invoked |-> <<>>, logged |-> {}, received |-> <<>>, merged |-> <<>>,
     lastErr |-> NoErr,
     anyRegistrySucceeded |-> FALSE, ret |-> NoRet]
NoLookup == [name |-> "", found |-> NilRegistry]

\* No call has just returned to a caller that still looks at the outcome.
Quiet == lookup = NoLookup /\ \A c \in Calls : sa[c].pc # "returned"

\* An AddRegistry that puts the new registry in front.
appendRegistry_front(regs, r) == <<r>> \o regs

\* rm.registries = append(rm.registries, reg)
appendRegistry(regs, r) == Append(regs, r)

\* AddRegistry: append under the write lock.
AddRegistry(r) ==
    /\ Quiet
    /\ mu = {}
    /\ Len(registries) < MaxRegistries
    /\ registries' = appendRegistry(registries, r)
    /\ UNCHANGED <<maxConcurrent, mu, sa, lookup, cacheVars, eval>>

\* A lookup that keeps the last match instead of returning at the first.
getRegistryFrom_last(regs, i, name) ==
    LET M == {j \in i..Len(regs) : BackendName(regs[j]) = name}
    IN IF M = {} THEN NilRegistry
       ELSE regs[CHOOSE j \in M : \A k \in M : k <= j]

\* The loop of GetRegistry from index i on.
RECURSIVE getRegistryFrom(_, _, _)
getRegistryFrom(regs, i, name) ==
    IF i > Len(regs) THEN NilRegistry
    ELSE IF BackendName(regs[i]) = name THEN regs[i]
    ELSE getRegistryFrom(regs, i + 1, name)

\* GetRegistry: the lookup under the read lock.
GetRegistry(name) ==
    /\ Quiet
    /\ lookup' = [name |-> name, found |-> getRegistryFrom(registries, 1, name)]
    /\ UNCHANGED <<registries, maxConcurrent, mu, sa, cacheVars, eval>>

\* The caller of GetRegistry is done with the handle.
Forget ==
    /\ lookup # NoLookup
    /\ lookup' = NoLookup
    /\ UNCHANGED <<registries, maxConcurrent, mu, sa, cacheVars, eval>>

\* A SearchAll that goes on with an empty snapshot.
NoRegistries_never(regs) == FALSE

\* len(regs) == 0
NoRegistries(regs) == Len(regs) = 0

\* An inner loop that also shifts the equal scores (results[j].Score <=
\* key.Score).
RECURSIVE shiftRight_le(_, _, _)
shiftRight_le(results, j, key) ==
    IF j >= 1 /\ results[j].Score <= key.Score
    THEN shiftRight_le([results EXCEPT ![j + 1] = results[j]], j - 1, key)
    ELSE [results EXCEPT ![j + 1] = key]

\* The inner loop of sortByScoreDesc: shift the smaller scores right of j.
RECURSIVE shiftRight(_, _, _)
shiftRight(results, j, key) ==
    IF j >= 1 /\ results[j].Score < key.Score
    THEN shiftRight([results EXCEPT ![j + 1] = results[j]], j - 1, key)
    ELSE [results EXCEPT ![j + 1] = key]

\* The outer loop of sortByScoreDesc from index i on.
RECURSIVE sortFrom(_, _)
sortFrom(results, i) ==
    IF i <= Len(results)
    THEN sortFrom(shiftRight(results, i - 1, results[i]), i + 1)
    ELSE results

\* A merge that returns the results as they arrived.
sortByScoreDesc_arrival(results) == results

sortByScoreDesc(results) == sortFrom(results, 2)

\* A clamp that keeps the last limit elements.
clamp_tail(merged, limit) ==
    IF limit > 0 /\ Len(merged) > limit
    THEN SubSeq(merged, Len(merged) - limit + 1, Len(merged))
    ELSE merged

\* Clamp to limit.
clamp(merged, limit) ==
    IF limit > 0 /\ Len(merged) > limit THEN SubSeq(merged, 1, limit)
    ELSE merged

\* The number of goroutines the calls in S have or will have.
RECURSIVE Goroutines(_)
Goroutines(S) ==
    IF S = {} THEN 0
    ELSE LET c == CHOOSE d \in S : TRUE
         IN Len(sa[c].regs) + Goroutines(S \ {c})

\* SearchAll, first step: RLock and copy the registries.
SearchAllSnapshot(c, limit) ==
    /\ Quiet
    /\ sa[c].pc = "idle"
    /\ Len(registries) + Goroutines(Calls \ {c}) <= MaxGoroutines
    /\ IF c = 1 THEN TRUE ELSE sa[c - 1].pc # "idle"
    /\ mu' = mu \cup {c}
    /\ sa' = [sa EXCEPT ![c] = [IdleCall EXCEPT !.pc = "snapshot",
                                                !.limit = limit,
                                                !.regs = registries]]
    /\ UNCHANGED <<registries, maxConcurrent, lookup, cacheVars, eval>>

\* A call that keeps the read lock until it returns.
rUnlock_deferred(m, c) == m

\* rm.mu.RUnlock() by call c.
rUnlock(m, c) == m \ {c}

\* SearchAll, next: RUnlock; return the error when the snapshot is empty,
\* else make sem and resultsCh and start one goroutine per registry.
SearchAllDispatch(c) ==
    /\ Quiet
    /\ sa[c].pc = "snapshot"
    /\ mu' = rUnlock(mu, c)
    /\ IF NoRegistries(sa[c].regs)
       THEN sa' = [sa EXCEPT ![c].pc = "returned",
                             ![c].ret = [results |-> <<>>,
                                         err |-> "no registries configured",
                                         wraps |-> NoErr]]
       ELSE sa' = [sa EXCEPT
                     ![c].pc = "collect",
                     ![c].wg = Len(sa[c].regs),
                     ![c].units = [i \in 1..Len(sa[c].regs) |->
                                      [pc |-> "select", held |-> FALSE,
                                       outcome |-> "none"]],
                     ![c].invoked = [i \in 1..Len(sa[c].regs) |-> 0]]
    /\ UNCHANGED <<registries, maxConcurrent, lookup, cacheVars, eval>>

\* The caller cancels ctx.
Cancel(c) ==
    /\ Quiet
    /\ sa[c].pc \in {"snapshot", "collect"}
    /\ ~sa[c].ctxDone
    /\ sa' = [sa EXCEPT ![c].ctxDone = TRUE]
    /\ UNCHANGED <<registries, maxConcurrent, mu, lookup, cacheVars, eval>>

\* A result queue made for one outcome: make(chan regResult, 1).
canSend_one(ch, regs) == Len(ch) < 1

\* resultsCh <- rr on a channel of capacity len(regs).
send(ch, regs, rr) == Append(ch, rr)
canSend(ch, regs) == Len(ch) < Len(regs)

\* A semaphore that always has room.
semHasRoom_always(sem) == TRUE

\* The two cases of the select: sem has room for a token, ctx is done.
semHasRoom(sem) == sem < maxConcurrent

\* A select without the case <-ctx.Done().
ctxDoneCase_never(done) == FALSE

ctxDoneCase(done) == done

\* A goroutine that takes a token out of sem when it ends, slot or no slot.
release_always(sem, held) == sem - 1

\* A goroutine that keeps its slot when it ends.
release_leak(sem, held) == sem

\* The deferred <-sem of a goroutine that holds a slot.
release(sem, held) == IF held THEN sem - 1 ELSE sem

\* A goroutine that calls r.Search a second time.
invoke_again(count) == count + 2

\* results, err := r.Search(searchCtx, query, limit): one more call.
invoke(count) == count + 1

\* A goroutine takes a slot of sem and calls r.Search.
UnitAcquire(c, i) ==
    /\ Quiet
    /\ sa[c].pc = "collect"
    /\ i \in DOMAIN sa[c].units
    /\ sa[c].units[i].pc = "select"
    /\ semHasRoom(sa[c].sem)
    /\ sa' = [sa EXCEPT ![c].sem = @ + 1,
                        ![c].units[i] = [pc |-> "search", held |-> TRUE,
                                         outcome |-> "none"],
                        ![c].invoked[i] = invoke(@)]
    /\ UNCHANGED <<registries, maxConcurrent, mu, lookup, cacheVars, eval>>

\* A goroutine finds ctx done at the select and sends ctx.Err().
UnitCancelled(c, i) ==
    /\ Quiet
    /\ sa[c].pc = "collect"
    /\ i \in DOMAIN sa[c].units
    /\ sa[c].units[i].pc = "select"
    /\ ctxDoneCase(sa[c].ctxDone)
    /\ canSend(sa[c].resultsCh, sa[c].regs)
    /\ sa' = [sa EXCEPT
                ![c].resultsCh =
                    send(@, sa[c].regs,
                         [results |-> <<>>, from |-> i,
                          err |-> [kind |-> "canceled", of |-> NilRegistry]]),
                ![c].units[i].pc = "deferred",
                ![c].units[i].outcome = "canceled"]
    /\ UNCHANGED <<registries, maxConcurrent, mu, lookup, cacheVars, eval>>

\* A goroutine that does not log the error of its Search.
warn_silent(logged, i, r, err) == logged

\* slog.Warn("registry search failed", "registry", r.Name(), "error", err)
\* by the goroutine of unit i.
warn(logged, i, r, err) ==
    logged \cup {[by |-> i, registry |-> BackendName(r), error |-> err]}

\* r.Search returns, with results or with an error, and the goroutine sends
\* the outcome; an error is logged first.
UnitSearchReturns(c, i, ok) ==
    /\ Quiet
    /\ sa[c].pc = "collect"
    /\ i \in DOMAIN sa[c].units
    /\ sa[c].units[i].pc = "search"
    /\ canSend(sa[c].resultsCh, sa[c].regs)
    /\ IF ok
       THEN sa' = [sa EXCEPT
                     ![c].resultsCh =
                         send(@, sa[c].regs,
                              [results |-> BackendResults(sa[c].regs[i]),
                               from |-> i, err |-> NoErr]),
                     ![c].units[i].pc = "deferred",
                     ![c].units[i].outcome = "ok"]
       ELSE sa' = [sa EXCEPT
                     ![c].logged = warn(@, i, sa[c].regs[i],
                                        [kind |-> "failed",
                                         of |-> sa[c].regs[i]]),
                     ![c].resultsCh =
                         send(@, sa[c].regs,
                              [results |-> <<>>, from |-> i,
                               err |-> [kind |-> "failed",
                                        of |-> sa[c].regs[i]]]),
                     ![c].units[i].pc = "deferred",
                     ![c].units[i].outcome = "failed"]
    /\ UNCHANGED <<registries, maxConcurrent, mu, lookup, cacheVars, eval>>

\* The deferred calls of a goroutine: give the slot back, wg.Done.
UnitExit(c, i) ==
    /\ Quiet
    /\ sa[c].pc = "collect"
    /\ i \in DOMAIN sa[c].units
    /\ sa[c].units[i].pc = "deferred"
    /\ sa' = [sa EXCEPT
                ![c].sem = release(@, sa[c].units[i].held),
                ![c].units[i].pc = "done",
                ![c].units[i].held = FALSE,
                ![c].wg = @ - 1]
    /\ UNCHANGED <<registries, maxConcurrent, mu, lookup, cacheVars, eval>>

\* The closing goroutine: wg.Wait returns, close(resultsCh).
CloseResults(c) ==
    /\ Quiet
    /\ sa[c].pc = "collect"
    /\ sa[c].wg = 0
    /\ ~sa[c].closed
    /\ sa' = [sa EXCEPT ![c].closed = TRUE]
    /\ UNCHANGED <<registries, maxConcurrent, mu, lookup, cacheVars, eval>>

\* A collector that keeps the first error it receives.
recordErr_first(lastErr, err) == IF lastErr = NoErr THEN err ELSE lastErr

\* lastErr = rr.err
recordErr(lastErr, err) == err

\* One round of the range over resultsCh.
Collect(c) ==
    /\ Quiet
    /\ sa[c].pc = "collect"
    /\ sa[c].resultsCh # <<>>
    /\ LET rr == Head(sa[c].resultsCh)
       IN IF rr.err # NoErr
          THEN sa' = [sa EXCEPT ![c].resultsCh = Tail(@),
                                ![c].received = Append(@, rr.from),
                                ![c].lastErr = recordErr(@, rr.err)]
          ELSE sa' = [sa EXCEPT ![c].resultsCh = Tail(@),
                                ![c].received = Append(@, rr.from),
                                ![c].anyRegistrySucceeded = TRUE,
                                ![c].merged = @ \o rr.results]
    /\ UNCHANGED <<registries, maxConcurrent, mu, lookup, cacheVars, eval>>

\* A SearchAll that fails as soon as one registry failed.
allFailed_anyError(anyRegistrySucceeded, lastErr) == lastErr # NoErr

\* !anyRegistrySucceeded && lastErr != nil
allFailed(anyRegistrySucceeded, lastErr) ==
    ~anyRegistrySucceeded /\ lastErr # NoErr

\* The range ends on the closed, drained channel; SearchAll returns.
SearchAllReturn(c) ==
    /\ Quiet
    /\ sa[c].pc = "collect"
    /\ sa[c].resultsCh = <<>>
    /\ sa[c].closed
    /\ IF allFailed(sa[c].anyRegistrySucceeded, sa[c].lastErr)
       THEN sa' = [sa EXCEPT ![c].pc = "returned",
                             ![c].ret = [results |-> <<>>,
                                         err |-> "all registries failed",
                                         wraps |-> sa[c].lastErr]]
       ELSE sa' = [sa EXCEPT
                     ![c].pc = "returned",
                     ![c].ret = [results |-> clamp(sortByScoreDesc(sa[c].merged),
                                                   sa[c].limit),
                                 err |-> "nil",
                                 wraps |-> NoErr]]
    /\ UNCHANGED <<registries, maxConcurrent, mu, lookup, cacheVars, eval>>

\* The caller of SearchAll is done with the outcome.
Finish(c) ==
    /\ sa[c].pc = "returned"
    /\ sa' = [sa EXCEPT ![c] = IdleCall]
    /\ UNCHANGED <<registries, maxConcurrent, mu, lookup, cacheVars, eval>>

RegistryInit ==
    /\ registries = NewRegistryManager.registries
    /\ maxConcurrent \in {NewRegistryManagerFromConfig(m).maxConcurrent :
                             m \in ConcurrencySettings}
    /\ mu = {}
    /\ sa = [c \in Calls |-> IdleCall]
    /\ lookup = NoLookup

DoAddRegistry == \E r \in Backends : AddRegistry(r)
DoGetRegistry == \E name \in Names : GetRegistry(name)
DoSearchAllSnapshot == \E c \in Calls, limit \in Limits : SearchAllSnapshot(c, limit)
DoSearchAllDispatch == \E c \in Calls : SearchAllDispatch(c)
DoCancel == \E c \in Calls : Cancel(c)
DoUnitAcquire == \E c \in Calls, i \in 1..MaxRegistries : UnitAcquire(c, i)
DoUnitCancelled == \E c \in Calls, i \in 1..MaxRegistries : UnitCancelled(c, i)
DoUnitSearchReturns ==
    \E c \in Calls, i \in 1..MaxRegistries, ok \in BOOLEAN :
        UnitSearchReturns(c, i, ok)
DoUnitExit == \E c \in Calls, i \in 1..MaxRegistries : UnitExit(c, i)
DoCloseResults == \E c \in Calls : CloseResults(c)
DoCollect == \E c \in Calls : Collect(c)
DoSearchAllReturn == \E c \in Calls : SearchAllReturn(c)
DoFinish == \E c \in Calls : Finish(c)

RegistryNext ==
    \/ DoAddRegistry
    \/ DoGetRegistry
    \/ Forget
    \/ DoSearchAllSnapshot
    \/ DoSearchAllDispatch
    \/ DoCancel
    \/ DoUnitAcquire
    \/ DoUnitCancelled
    \/ DoUnitSearchReturns
    \/ DoUnitExit
    \/ DoCloseResults
    \/ DoCollect
    \/ DoSearchAllReturn
    \/ DoFinish

(***************************************************************************)
(* The functions of the package applied on their own.                      *)
(***************************************************************************)
\* Nothing is applied.
NoEval == [fn |-> "none", args |-> <<>>, out |-> <<>>]

\* The arguments: the strictly ascending sequences over 0..MaxCode, the
\* strings over four byte values up to MaxLen and "hello", and the
\* configuration values.
Ascending(S) ==
    CHOOSE s \in [1..Cardinality(S) -> S] :
        \A i, j \in 1..Cardinality(S) : i < j => s[i] < s[j]
TrigramSlices == {Ascending(S) : S \in SUBSET (0..MaxCode)}
Bytes == {0, 1, 97, 255}
qHello == <<104, 101, 108, 108, 111>>
Strings == UNION {[1..n -> Bytes] : n \in 0..MaxLen} \cup {qHello}
ConfigValues == {-1, 0, 1, 2, 3}

\* utils.Truncate.  A string is its bytes; a rune is its code point.
\* utf8.RuneError, the rune of a byte that starts no valid encoding.
RuneError == 65533

\* The second byte a valid encoding may have after the first byte b1 (the
\* accept ranges of unicode/utf8: no overlong form, no surrogate, nothing
\* above U+10FFFF).
SecondBytes(b1) ==
    CASE b1 = 224 -> 160..191
      [] b1 = 237 -> 128..159
      [] b1 = 240 -> 144..191
      [] b1 = 244 -> 128..143
      [] OTHER -> 128..191

\* The first rune of the non-empty string s and the bytes it takes: what
\* the conversion []rune(s) reads at each step.
DecodeRune(s) ==
    LET b1 == s[1]
        cont(i) == Len(s) >= i /\ s[i] \in 128..191
    IN IF b1 < 128 THEN [rune |-> b1, size |-> 1]
       ELSE IF b1 \in 194..223 /\ cont(2)
       THEN [rune |-> (b1 - 192) * 64 + (s[2] - 128), size |-> 2]
       ELSE IF b1 \in 224..239 /\ Len(s) >= 2 /\ s[2] \in SecondBytes(b1)
               /\ cont(3)
       THEN [rune |-> (b1 - 224) * 4096 + (s[2] - 128) * 64 + (s[3] - 128),
             size |-> 3]
       ELSE IF b1 \in 240..244 /\ Len(s) >= 2 /\ s[2] \in SecondBytes(b1)
               /\ cont(3) /\ cont(4)
       THEN [rune |-> (b1 - 240) * 262144 + (s[2] - 128) * 4096
                      + (s[3] - 128) * 64 + (s[4] - 128),
             size |-> 4]
       ELSE [rune |-> RuneError, size |-> 1]

\* []rune(s)
RECURSIVE Runes(_)
Runes(s) ==
    IF s = <<>> THEN <<>>
    ELSE LET d == DecodeRune(s)
         IN <<d.rune>> \o Runes(SubSeq(s, d.size + 1, Len(s)))

\* The UTF-8 encoding of one rune, as string(runes) writes it.
EncodeRune(r) ==
    IF r < 128 THEN <<r>>
    ELSE IF r < 2048 THEN <<192 + (r \div 64), 128 + (r % 64)>>
    ELSE IF r \in 55296..57343 \/ r > 1114111 THEN <<239, 191, 189>>
    ELSE IF r < 65536
    THEN <<224 + (r \div 4096), 128 + ((r \div 64) % 64), 128 + (r % 64)>>
    ELSE <<240 + (r \div 262144), 128 + ((r \div 4096) % 64),
           128 + ((r \div 64) % 64), 128 + (r % 64)>>

\* string(runes)
RECURSIVE String(_)
String(runes) ==
    IF runes = <<>> THEN <<>>
    ELSE EncodeRune(Head(runes)) \o String(Tail(runes))

\* "..."
Ellipsis == <<46, 46, 46>>

\* A Truncate that cuts the bytes of s in place of its runes.
Truncate_bytes(s, maxLen) ==
    IF Len(s) <= maxLen THEN s
    ELSE IF maxLen <= 3 THEN SubSeq(s, 1, maxLen)
    ELSE SubSeq(s, 1, maxLen - 3) \o Ellipsis

\* Truncate
Truncate(s, maxLen) ==
    LET runes == Runes(s)
    IN IF Len(runes) <= maxLen THEN s
       ELSE IF maxLen <= 3 THEN String(SubSeq(runes, 1, maxLen))
       ELSE String(SubSeq(runes, 1, maxLen - 3)) \o Ellipsis

\* The strings given to Truncate: up to MaxRunes bytes among ".", "a" and
\* the two bytes of U+00E9, which are invalid on their own or in the other
\* order; and the lengths asked for.
TruncateBytes == {46, 97, 195, 169}
TruncateStrings == UNION {[1..n -> TruncateBytes] : n \in 0..MaxRunes}
TruncateLens == 0..MaxRunes

ApplyJaccardSimilarity(a, b) ==
    /\ eval = NoEval
    /\ eval' = [fn |-> "jaccardSimilarity", args |-> <<a, b>>,
                out |-> jaccardSimilarity(a, b)]
    /\ UNCHANGED <<cacheVars, regVars>>

ApplyBuildTrigrams(str) ==
    /\ eval = NoEval
    /\ eval' = [fn |-> "buildTrigrams", args |-> <<str>>,
                out |-> buildTrigrams(str)]
    /\ UNCHANGED <<cacheVars, regVars>>

ApplyNewSearchCache(m, t) ==
    /\ eval = NoEval
    /\ eval' = [fn |-> "NewSearchCache", args |-> <<m, t>>,
                out |-> NewSearchCache(m, t)]
    /\ UNCHANGED <<cacheVars, regVars>>

ApplyNewRegistryManager ==
    /\ eval = NoEval
    /\ eval' = [fn |-> "NewRegistryManager", args |-> <<>>,
                out |-> NewRegistryManager]
    /\ UNCHANGED <<cacheVars, regVars>>

ApplyNewRegistryManagerFromConfig(m) ==
    /\ eval = NoEval
    /\ eval' = [fn |-> "NewRegistryManagerFromConfig", args |-> <<m>>,
                out |-> NewRegistryManagerFromConfig(m)]
    /\ UNCHANGED <<cacheVars, regVars>>

ApplyTruncate(s, maxLen) ==
    /\ eval = NoEval
    /\ eval' = [fn |-> "Truncate", args |-> <<s, maxLen>>,
                out |-> Truncate(s, maxLen)]
    /\ UNCHANGED <<cacheVars, regVars>>

DoTruncate ==
    /\ eval = NoEval
    /\ \E s \in TruncateStrings, maxLen \in TruncateLens : ApplyTruncate(s, maxLen)

\* The value returned is dropped.
Drop ==
    /\ eval # NoEval
    /\ eval' = NoEval
    /\ UNCHANGED <<cacheVars, regVars>>

FunctionsNext ==
    \/ \E a, b \in TrigramSlices : ApplyJaccardSimilarity(a, b)
    \/ \E str \in Strings : ApplyBuildTrigrams(str)
    \/ \E m, t \in ConfigValues : ApplyNewSearchCache(m, t)
    \/ ApplyNewRegistryManager
    \/ \E m \in ConfigValues : ApplyNewRegistryManagerFromConfig(m)
    \/ DoTruncate
    \/ Drop

(***************************************************************************)
(* Properties of RegistryManager.                                          *)
(***************************************************************************)
\* C10: a SearchAll call whose snapshot of the registries is empty returns an
\* error as its first step after the snapshot, without results; it has no
\* goroutine, no slot of its semaphore is taken, nothing is sent and no
\* Search is invoked.
C10_NoRegistriesFailsAtOnce ==
    \A c \in Calls :
        (sa[c].pc \notin {"idle", "snapshot"} /\ sa[c].regs = <<>>) =>
            /\ sa[c].pc = "returned"
            /\ sa[c].ret.err = "no registries configured"
            /\ sa[c].ret.results = <<>>
            /\ sa[c].units = <<>>
            /\ sa[c].invoked = <<>>
            /\ sa[c].sem = 0
            /\ sa[c].resultsCh = <<>>

\* A SearchAll call over no registry has returned its error.
C10_Witness ==
    \E c \in Calls :
        /\ sa[c].pc = "returned"
        /\ sa[c].regs = <<>>
        /\ registries = <<>>
        /\ sa[c].ret.err # "nil"

\* Call c has returned from a fan-out; its units by what they reported.
FannedOut(c) == sa[c].pc = "returned" /\ sa[c].regs # <<>>
OkUnits(c) == {i \in DOMAIN sa[c].units : sa[c].units[i].outcome = "ok"}
InFlight(c) == {i \in DOMAIN sa[c].units : sa[c].units[i].pc = "search"}

\* The results of the successful units among rcv, in that order.
RECURSIVE ConcatOk(_, _)
ConcatOk(c, rcv) ==
    IF rcv = <<>> THEN <<>>
    ELSE (IF Head(rcv) \in OkUnits(c)
          THEN BackendResults(sa[c].regs[Head(rcv)]) ELSE <<>>)
         \o ConcatOk(c, Tail(rcv))

\* The error unit i of call c reported.
ErrOf(c, i) ==
    IF sa[c].units[i].outcome = "canceled"
    THEN [kind |-> "canceled", of |-> NilRegistry]
    ELSE [kind |-> "failed", of |-> sa[c].regs[i]]

\* C11: when at least one unit of a SearchAll call reported success, the
\* call returns without error although other units failed, and the merged
\* sequence before sorting and truncation is made of the results of every
\* successful unit, in the order received, and of nothing else.
C11_PartialSuccess ==
    \A c \in Calls :
        (FannedOut(c) /\ OkUnits(c) # {}) =>
            /\ sa[c].ret.err = "nil"
            /\ Range(sa[c].received) = DOMAIN sa[c].regs
            /\ Len(sa[c].received) = Len(sa[c].regs)
            /\ sa[c].merged = ConcatOk(c, sa[c].received)

\* A call has returned results although one of its two units failed.
C11_Witness ==
    \E c \in Calls :
        /\ FannedOut(c)
        /\ OkUnits(c) # {}
        /\ \E i \in DOMAIN sa[c].units : sa[c].units[i].outcome = "failed"
        /\ sa[c].ret.results # <<>>

\* C12: when every unit of a SearchAll call over a non-empty snapshot
\* reported a failure or the cancellation, the call returns no results and
\* the error "all registries failed" wrapping the error received last.
C12_AllFailed ==
    \A c \in Calls :
        (FannedOut(c) /\ OkUnits(c) = {}) =>
            /\ sa[c].ret.results = <<>>
            /\ sa[c].ret.err = "all registries failed"
            /\ Len(sa[c].received) = Len(sa[c].regs)
            /\ sa[c].ret.wraps = ErrOf(c, sa[c].received[Len(sa[c].received)])

\* A call has failed after getting a cancellation and then a Search error.
C12_Witness ==
    \E c \in Calls :
        /\ FannedOut(c)
        /\ OkUnits(c) = {}
        /\ Len(sa[c].received) = 2
        /\ sa[c].units[sa[c].received[1]].outcome = "canceled"
        /\ sa[c].units[sa[c].received[2]].outcome = "failed"

\* C13: within one SearchAll call the number of Search calls in flight is
\* never above maxConcurrent.
C13_InFlightBounded ==
    \A c \in Calls : Cardinality(InFlight(c)) <= maxConcurrent

\* With maxConcurrent = 1 a unit is searching and another waits for the slot.
C13_Witness ==
    \E c \in Calls :
        /\ maxConcurrent = 1
        /\ ~sa[c].ctxDone
        /\ Cardinality(InFlight(c)) = 1
        /\ \E i \in DOMAIN sa[c].units : sa[c].units[i].pc = "select"

\* The place of m[i] when m is ordered by score, highest first, equal scores
\* in the order they have in m; and m so ordered.
StableRank(m, i) ==
    1 + Cardinality({j \in 1..Len(m) :
                        \/ m[j].Score > m[i].Score
                        \/ m[j].Score = m[i].Score /\ j < i})
StableSortDesc(m) ==
    [k \in 1..Len(m) |-> m[CHOOSE i \in 1..Len(m) : StableRank(m, i) = k]]

\* The results of the successful units of call c, concatenated in the order
\* the collector received them.
Concatenation(c) == ConcatOk(c, sa[c].received)

\* C14: the sequence a successful SearchAll returns has non-increasing
\* scores, and results of equal score stand in the order they had in the
\* concatenation of the successful units' result sequences.
C14_SortedStable ==
    \A c \in Calls :
        (FannedOut(c) /\ sa[c].ret.err = "nil") =>
            LET out == sa[c].ret.results
            IN /\ \A k \in 1..(Len(out) - 1) : out[k].Score >= out[k + 1].Score
               /\ Len(out) <= Len(Concatenation(c))
               /\ out = SubSeq(StableSortDesc(Concatenation(c)), 1, Len(out))

\* A call has returned four results in another order than it merged them,
\* three of them, from two registries, with the same score.
C14_Witness ==
    \E c \in Calls :
        /\ FannedOut(c)
        /\ sa[c].ret.err = "nil"
        /\ Len(sa[c].ret.results) = 4
        /\ sa[c].ret.results # sa[c].merged
        /\ sa[c].ret.results[1].Score = sa[c].ret.results[3].Score
        /\ sa[c].regs[1] # sa[c].regs[2]

\* C15: a successful SearchAll with limit > 0 returns min(limit, number of
\* successful results) results, the first ones of the sorted merge, none
\* with a score below that of a discarded result; with limit <= 0 it
\* returns every successful result.
C15_Limit ==
    \A c \in Calls :
        (FannedOut(c) /\ sa[c].ret.err = "nil") =>
            LET out == sa[c].ret.results
                full == StableSortDesc(Concatenation(c))
                total == Len(full)
            IN IF sa[c].limit > 0
               THEN /\ Len(out) = IF sa[c].limit < total THEN sa[c].limit
                                  ELSE total
                    /\ \A k \in 1..Len(out) : out[k] = full[k]
                    /\ \A k \in 1..Len(out) :
                         \A d \in (Len(out) + 1)..total :
                            out[k].Score >= full[d].Score
               ELSE out = full

\* A call with limit 3 has returned three of four successful results.
C15_Witness ==
    \E c \in Calls :
        /\ FannedOut(c)
        /\ sa[c].ret.err = "nil"
        /\ sa[c].limit = 3
        /\ Len(sa[c].merged) = 4
        /\ Len(sa[c].ret.results) = 3

\* Unit i of call c waits at the select after ctx was cancelled.
WaitsCancelled(c, i) ==
    /\ sa[c].pc = "collect"
    /\ i \in DOMAIN sa[c].units
    /\ sa[c].units[i].pc = "select"
    /\ sa[c].ctxDone

\* C16 as claimed: a unit that has not acquired a slot when the cancellation
\* fires reports the cancellation as its outcome and never invokes Search.
C16_Original ==
    [][\A c \in Calls : \A i \in 1..MaxRegistries :
          WaitsCancelled(c, i) =>
              /\ sa'[c].invoked[i] = 0
              /\ sa'[c].units[i].pc \in {"select", "deferred"}
              /\ sa'[c].units[i].outcome \in {"none", "canceled"}]_vars

\* C16 amended: a unit that has not acquired a slot when the cancellation
\* fires does not have to wait for a slot: it can report the cancellation at
\* once, whatever the semaphore holds; a unit reports the cancellation only
\* from the select, after the cancellation, and such a unit never invokes
\* Search nor takes a slot; the unit invokes Search after the cancellation
\* only by taking a slot that is free.
C16_CancelledUnit ==
    /\ [](\A c \in Calls : \A i \in 1..MaxRegistries :
            /\ (WaitsCancelled(c, i) /\ Quiet) => ENABLED UnitCancelled(c, i)
            /\ (i \in DOMAIN sa[c].units
                 /\ sa[c].units[i].outcome = "canceled") =>
                    (sa[c].invoked[i] = 0 /\ ~sa[c].units[i].held))
    /\ [][\A c \in Calls : \A i \in DOMAIN sa[c].units :
            /\ (sa[c].pc = "collect"
                 /\ sa[c].units[i].outcome # "canceled"
                 /\ sa'[c].units[i].outcome = "canceled") =>
                    (WaitsCancelled(c, i) /\ sa'[c].sem = sa[c].sem)
            /\ (WaitsCancelled(c, i) /\ sa'[c].invoked[i] # 0) =>
                    (sa[c].sem < maxConcurrent /\ sa'[c].sem = sa[c].sem + 1)]_vars

\* With the only slot taken by a unit that is searching, another unit has
\* reported the cancellation without invoking Search.
C16_Witness ==
    \E c \in Calls : \E i, j \in DOMAIN sa[c].units :
        /\ maxConcurrent = 1
        /\ sa[c].units[j].pc = "search"
        /\ sa[c].units[i].outcome = "canceled"
        /\ sa[c].invoked[i] = 0

\* C17: when every Search that was started returns, every SearchAll call
\* returns, cancelled or not: a call that has taken its snapshot reaches its
\* return.
C17_SearchAllReturns ==
    \A c \in Calls :
        (sa[c].pc \in {"snapshot", "collect"}) ~> (sa[c].pc = "returned")

\* A cancelled call has returned: one unit reported the cancellation while
\* it waited for the only slot, the other had invoked Search.
C17_Witness ==
    \E c \in Calls : \E i, j \in DOMAIN sa[c].units :
        /\ FannedOut(c)
        /\ maxConcurrent = 1
        /\ sa[c].ctxDone
        /\ sa[c].units[i].outcome = "canceled"
        /\ sa[c].invoked[j] = 1

\* Some Search of some call is in flight.
Searching == \E c \in Calls : InFlight(c) # {}

\* C18: a SearchAll call holds the read lock exactly between its RLock and
\* the end of the copy, never while one of its Searches is in flight; and
\* while a Search is in flight (it need not return), AddRegistry, GetRegistry
\* and the snapshot of another call can take the lock, and the snapshot can
\* go on to give it back.
C18_LockOnlyWhileCopying ==
    /\ \A c \in Calls : c \in mu <=> sa[c].pc = "snapshot"
    /\ \A c \in Calls : InFlight(c) # {} => c \notin mu
    /\ \A d \in Calls :
          (sa[d].pc = "snapshot" /\ Quiet) => ENABLED SearchAllDispatch(d)
    /\ (Searching /\ Quiet) =>
          /\ ENABLED DoGetRegistry
          /\ ((\A c \in Calls : sa[c].pc # "snapshot")
                 /\ Len(registries) < MaxRegistries) => ENABLED DoAddRegistry
          /\ \A d \in Calls :
                (/\ sa[d].pc = "idle"
                 /\ Len(registries) + Goroutines(Calls \ {d}) <= MaxGoroutines
                 /\ \A e \in Calls : e < d => sa[e].pc # "idle")
                => ENABLED (\E limit \in Limits : SearchAllSnapshot(d, limit))

\* While a Search of one call is in flight, another call holds the read lock
\* for its copy.
C18_Witness ==
    \E c, d \in Calls :
        /\ c # d
        /\ InFlight(c) # {}
        /\ sa[d].pc = "snapshot"
        /\ d \in mu

\* The positions of the registered backends called name.
Named(name) == {i \in DOMAIN registries : BackendName(registries[i]) = name}

\* C19: GetRegistry(name) returns the backend registered first among those
\* called name, and nil when there is none; SearchAll has one unit for every
\* entry of its snapshot, backends of the same name included, and a call
\* that returned without cancellation has invoked Search once on each.
C19_GetRegistryFirstMatch ==
    /\ lookup # NoLookup =>
          IF Named(lookup.name) = {}
          THEN lookup.found = NilRegistry
          ELSE \E i \in Named(lookup.name) :
                  /\ \A j \in Named(lookup.name) : i <= j
                  /\ lookup.found = registries[i]
                  /\ lookup.found # NilRegistry
    /\ \A c \in Calls :
          (sa[c].pc \in {"collect", "returned"} /\ sa[c].regs # <<>>) =>
              /\ DOMAIN sa[c].units = DOMAIN sa[c].regs
              /\ DOMAIN sa[c].invoked = DOMAIN sa[c].regs
              /\ \A i \in DOMAIN sa[c].regs : sa[c].invoked[i] <= 1
              /\ (sa[c].pc = "returned" /\ ~sa[c].ctxDone) =>
                    \A i \in DOMAIN sa[c].regs : sa[c].invoked[i] = 1

\* Two backends share the name: the lookup returned the one registered first
\* (not the one of the lower number), and a SearchAll invoked both.
C19_Witness ==
    /\ registries = <<2, 1>>
    /\ BackendName(1) = BackendName(2)
    /\ lookup # NoLookup
    /\ lookup.name = BackendName(1)
    /\ lookup.found = 2
    /\ \E c \in Calls :
          /\ sa[c].pc = "collect"
          /\ sa[c].regs = registries
          /\ \A i \in DOMAIN sa[c].regs : sa[c].invoked[i] = 1

\* The order after key k became the most recently used.
Touched(ord, k) == SelectSeq(ord, LAMBDA x : x # k) \o <<k>>

\* Put(k, val) run alone on the cache v: the expired entries go, then the
\* key is updated, or inserted after the oldest entries made room.
SeqPut(v, k, val) ==
    LET liveK == {x \in DOMAIN v.vals : now - v.vals[x].createdAt < ttl}
        ord1 == SelectSeq(v.order, LAMBDA x : x \in liveK)
        new == [val |-> val, createdAt |-> now]
        over == Cardinality(liveK) - maxEntries + 1
        n == IF over < 0 THEN 0 ELSE IF over > Len(ord1) THEN Len(ord1) ELSE over
        kept == SubSeq(ord1, n + 1, Len(ord1))
    IN IF k \in liveK
       THEN [vals |-> [x \in liveK |-> IF x = k THEN new ELSE v.vals[x]],
             order |-> Touched(ord1, k)]
       ELSE [vals |-> [x \in Range(kept) \cup {k} |->
                         IF x = k THEN new ELSE v.vals[x]],
             order |-> Append(kept, k)]

\* Get(q) run alone on the cache v, k being the normal form of q: the
\* outcomes it may have, each with the cache it leaves.
SeqGet(v, q, k) ==
    LET liveK == {x \in DOMAIN v.vals : now - v.vals[x].createdAt < ttl}
        hit(x) == [after |-> [v EXCEPT !.order = Touched(v.order, x)],
                   ret |-> [hit |-> TRUE, val |-> v.vals[x].val]]
        best == {x \in liveK :
                    /\ AtLeast(Sim(q, x), similarityThreshold)
                    /\ \A y \in liveK : AtLeast(Sim(q, x), Sim(q, y))}
    IN IF k \in liveK THEN {hit(k)}
       ELSE IF best = {} THEN {[after |-> v, ret |-> NoResult]}
       ELSE {hit(x) : x \in best}

\* The places of a call between Lock and Unlock.
Inside == {"lookup", "move", "copy", "sweep", "store", "touch", "append", "unlock"}

\* C20: Get and Put run under the exclusive lock: a goroutine inside a call
\* holds sc.mu, so at most one is inside; only the holder changes the cache;
\* when a call is about to unlock, the cache and the result are those of the
\* call run alone on the cache it found when it took the lock, so that the
\* calls are as if run one after the other in the order of their Lock; and
\* whenever the lock is free the map is within maxEntries and the order
\* lists exactly the keys of the map, once each.
C20_AtomicUnderLock ==
    /\ [](/\ \A t \in Callers : callers[t].pc \in Inside => scmu = t
          /\ scmu = NoHolder =>
                /\ Cardinality(DOMAIN entries) <= maxEntries
                /\ Range(order) = DOMAIN entries
                /\ Len(order) = Cardinality(DOMAIN entries)
          /\ \A t \in Callers :
                callers[t].pc = "unlock" =>
                    IF callers[t].op = "Put"
                    THEN Stored(entries, order, heap)
                            = SeqPut(callers[t].pre, callers[t].normalized,
                                     callers[t].arg.val)
                    ELSE \E o \in SeqGet(callers[t].pre, callers[t].query,
                                         callers[t].normalized) :
                            /\ o.after = Stored(entries, order, heap)
                            /\ o.ret = callers[t].ret)
    /\ [][Stored(entries', order', heap') # Stored(entries, order, heap) =>
            /\ scmu \in Callers
            /\ scmu' = scmu
            /\ callers[scmu].pc \in Inside
            /\ callers'[scmu].pc # callers[scmu].pc
            /\ \A u \in Callers \ {scmu} : callers'[u] = callers[u]]_vars

\* A Put that evicted the oldest entry of a full cache is about to unlock,
\* with the map stored and the order appended, while a Get of another
\* goroutine waits for the lock.
C20_Witness ==
    \E t, u \in Callers :
        /\ t # u
        /\ scmu = t
        /\ callers[t].pc = "unlock"
        /\ callers[t].op = "Put"
        /\ Cardinality(DOMAIN callers[t].pre.vals) = maxEntries
        /\ Range(callers[t].pre.order) \ DOMAIN entries # {}
        /\ callers[t].normalized \notin DOMAIN callers[t].pre.vals
        /\ callers[u].pc = "lock"
        /\ callers[u].op = "Get"

\* C21: a Put whose query has an empty normal form (empty, or white space
\* only) leaves the cache as it was: the same keys with the same values and
\* creation times, expired ones included, and the same recency order.
C21_EmptyPutChangesNothing ==
    [][(IsPut /\ NormalForm(call'.query) = <<>>) =>
          /\ DOMAIN entries' = DOMAIN entries
          /\ CacheView' = CacheView
          /\ order' = order
          /\ call'.swept = {} /\ call'.evicted = {}]_vars

\* A Put of the empty string, or of blanks, has returned on a full cache
\* that still holds an expired entry.
C21_Witness ==
    /\ call.op = "Put"
    /\ call.query \in {qEmpty, qBlank}
    /\ \E k \in DOMAIN entries : ~Live(k)
    /\ Len(order) = 2

\* The cache, beside a manager nobody calls.
Init ==
    /\ CacheInit
    /\ RegistryInit
    /\ maxConcurrent = defaultMaxConcurrentSearches
    /\ eval = NoEval
Next == CacheNext
Spec == Init /\ [][Next]_vars

\* The cache under concurrent callers, beside a manager nobody calls.
SpecConcurrent == Init /\ [][ConcurrentNext]_vars

\* jaccardSimilarity was applied to a and b and returned out.
JaccardOf(a, b, out) ==
    eval.fn = "jaccardSimilarity" /\ eval.args = <<a, b>> /\ eval.out = out

\* C22: for strictly ascending sequences a and b without duplicates,
\* jaccardSimilarity(a, b) is the quotient of the sizes of the intersection
\* and of the union of their sets; it is 1 for two empty sequences, 0 when
\* exactly one is empty, and the same for (b, a).
C22_JaccardIsSetQuotient ==
    \A a, b \in TrigramSlices :
        JaccardOf(a, b, eval.out) =>
            LET A == {a[i] : i \in 1..Len(a)}
                B == {b[i] : i \in 1..Len(b)}
                out == eval.out
            IN /\ out[2] > 0
               /\ IF A = {} /\ B = {} THEN out[1] = out[2]
                  ELSE out[1] * Cardinality(A \cup B)
                          = Cardinality(A \cap B) * out[2]
               /\ ((A = {}) # (B = {})) => out[1] = 0
               /\ out = jaccardSimilarity(b, a)

\* The function was applied to two sequences that overlap in part: two
\* common codes among four.
C22_Witness == JaccardOf(<<0, 1, 3>>, <<1, 2, 3>>, <<2, 4>>)

\* The code of a three-character window.
WindowCode(w) == w[1] * 65536 + w[2] * 256 + w[3]

\* C23: buildTrigrams(s) is empty when s has fewer than 3 characters; else
\* it is strictly ascending (so without duplicates) and holds exactly the
\* codes c0 * 65536 + c1 * 256 + c2 of the three-character windows of s, as
\* many codes as there are distinct windows; "hello" gives hel, ell and llo.
C23_BuildTrigrams ==
    eval.fn = "buildTrigrams" =>
        LET str == eval.args[1]
            out == eval.out
        IN /\ Len(str) < 3 => out = <<>>
           /\ \A i, j \in 1..Len(out) : i < j => out[i] < out[j]
           /\ {out[i] : i \in 1..Len(out)}
                 = {WindowCode(w) : w \in TrigramSet(str)}
           /\ Len(out) = Cardinality(TrigramSet(str))
           /\ str = qHello =>
                 /\ Len(out) = 3
                 /\ {out[i] : i \in 1..Len(out)}
                       = {WindowCode(<<104, 101, 108>>),
                          WindowCode(<<101, 108, 108>>),
                          WindowCode(<<108, 108, 111>>)}

\* The function was applied to a string whose windows come out of the order
\* of their codes: "a\x00a\x00" has the windows a.a and .a. and the first
\* has the greater code.
C23_Witness ==
    /\ eval.fn = "buildTrigrams"
    /\ eval.args = <<(<<97, 0, 97, 0>>)>>
    /\ eval.out = <<WindowCode(<<0, 97, 0>>), WindowCode(<<97, 0, 97>>)>>

\* C24: NewSearchCache takes capacity 50 for maxEntries <= 0 and 5 minutes
\* (300 seconds) for ttl <= 0; NewRegistryManager, and
\* NewRegistryManagerFromConfig with MaxConcurrentSearches <= 0, take the
\* concurrency cap 2; positive values are taken as given.
C24_DefaultsForNonPositive ==
    /\ eval.fn = "NewSearchCache" =>
          LET m == eval.args[1]
              t == eval.args[2]
          IN /\ eval.out.maxEntries = IF m <= 0 THEN 50 ELSE m
             /\ eval.out.ttl = IF t <= 0 THEN 5 * 60 ELSE t
    /\ eval.fn = "NewRegistryManager" => eval.out.maxConcurrent = 2
    /\ eval.fn = "NewRegistryManagerFromConfig" =>
          LET m == eval.args[1]
          IN eval.out.maxConcurrent = IF m <= 0 THEN 2 ELSE m

\* NewSearchCache was given a negative capacity and a positive ttl.
C24_Witness ==
    /\ eval.fn = "NewSearchCache"
    /\ eval.args = <<-1, 3>>
    /\ eval.out = [maxEntries |-> 50, ttl |-> 3]

\* The units whose outcomes were sent on resultsCh, in the order of sending
\* as far as the queue keeps it: those received, then those still queued.
Delivered(c) ==
    sa[c].received \o [k \in 1..Len(sa[c].resultsCh) |-> sa[c].resultsCh[k].from]

\* C25: in a SearchAll call over n > 0 backends every unit sends one outcome
\* and no more; a unit that has not sent yet finds room in the queue; the
\* queue is closed only when every unit has sent and ended; and the call
\* returns after the collector received all n outcomes.
C25_OneOutcomePerUnit ==
    \A c \in Calls :
        (sa[c].pc \in {"collect", "returned"} /\ sa[c].regs # <<>>) =>
            LET n == Len(sa[c].regs)
                d == Delivered(c)
                sent == {i \in 1..n : sa[c].units[i].outcome # "none"}
            IN /\ \A j, k \in 1..Len(d) : d[j] = d[k] => j = k
               /\ {d[k] : k \in 1..Len(d)} = sent
               /\ Len(sa[c].resultsCh) <= n
               /\ sent # 1..n =>
                     /\ Len(sa[c].resultsCh) < n
                     /\ canSend(sa[c].resultsCh, sa[c].regs)
               /\ sa[c].closed =>
                     \A i \in 1..n : /\ sa[c].units[i].pc = "done"
                                      /\ i \in sent
               /\ sa[c].pc = "returned" =>
                     /\ Len(sa[c].received) = n
                     /\ sa[c].resultsCh = <<>>
                     /\ sa[c].closed

\* Both units of a call have sent and ended before the collector received
\* anything: the queue is full and closed.
C25_Witness ==
    \E c \in Calls :
        /\ sa[c].pc = "collect"
        /\ Len(sa[c].regs) = 2
        /\ Len(sa[c].resultsCh) = 2
        /\ sa[c].received = <<>>
        /\ sa[c].closed

\* The units of call c that hold a slot of its sem.
Holders(c) == {i \in DOMAIN sa[c].units : sa[c].units[i].held}

\* C26: a unit holds its slot from the acquisition, through the Search and
\* the sending of the outcome, success or failure, until its deferred
\* release, which takes exactly one token out of sem; sem holds one token
\* per holder, and none when every unit has ended.
C26_SlotHeldThenReleased ==
    /\ [](\A c \in Calls :
            /\ sa[c].sem = Cardinality(Holders(c))
            /\ \A i \in DOMAIN sa[c].units :
                  /\ sa[c].units[i].pc = "search" => sa[c].units[i].held
                  /\ sa[c].units[i].held =>
                        /\ sa[c].units[i].pc \in {"search", "deferred"}
                        /\ sa[c].invoked[i] = 1
                  /\ sa[c].units[i].outcome \in {"ok", "failed"}
                        => (sa[c].units[i].held <=> sa[c].units[i].pc = "deferred")
            /\ (\A i \in DOMAIN sa[c].units : sa[c].units[i].pc = "done")
                  => sa[c].sem = 0)
    /\ [][\A c \in Calls :
            sa[c].pc = "collect" /\ sa'[c].pc = "collect" =>
                /\ \A i \in DOMAIN sa[c].units :
                      (sa[c].units[i].held /\ ~sa'[c].units[i].held) =>
                          /\ sa[c].units[i].outcome \in {"ok", "failed"}
                          /\ sa'[c].units[i].pc = "done"
                          /\ sa'[c].sem = sa[c].sem - 1
                /\ sa'[c].sem < sa[c].sem =>
                      \E i \in DOMAIN sa[c].units :
                          sa[c].units[i].held /\ ~sa'[c].units[i].held]_vars

\* One unit failed, gave its slot back and ended; the other took the slot,
\* succeeded and still holds it before its deferred release.
C26_Witness ==
    \E c \in Calls : \E i, j \in DOMAIN sa[c].units :
        /\ maxConcurrent = 1
        /\ sa[c].units[i].outcome = "failed"
        /\ sa[c].units[i].pc = "done"
        /\ sa[c].units[j].outcome = "ok"
        /\ sa[c].units[j].pc = "deferred"
        /\ sa[c].sem = 1

\* A Put step with a query whose normal form is not empty.
IsStoringPut == IsPut /\ NormalForm(call'.query) # <<>>

\* C27 as stated: after a Put with a non-empty normal form, no key whose
\* entry was expired when the Put started is in the map or in the order.
C27_Original ==
    [][IsStoringPut =>
          \A k \in DOMAIN entries :
              ~Live(k) => k \notin DOMAIN entries' /\ k \notin Range(order')]_vars

\* C27: after a Put with a non-empty normal form, every entry that was
\* expired when the Put started is gone: its key is neither in the map nor
\* in the order, unless it is the key written, which then has the entry the
\* Put made (created now) and stands once in the order, at the tail; no
\* entry of the map is expired.
C27_PutSweepsExpired ==
    [][IsStoringPut =>
          /\ \A k \in DOMAIN entries :
                ~Live(k) =>
                    IF k = NormalForm(call'.query)
                    THEN /\ entries'[k].createdAt = now
                         /\ order'[Len(order')] = k
                         /\ \A i \in 1..(Len(order') - 1) : order'[i] # k
                    ELSE k \notin DOMAIN entries' /\ k \notin Range(order')
          /\ \A k \in DOMAIN entries' : now - entries'[k].createdAt < ttl
          /\ \A i \in 1..Len(order') :
                /\ order'[i] \in DOMAIN entries'
                /\ now - entries'[order'[i]].createdAt < ttl]_vars

\* A Put has swept an expired entry of a key other than the one it wrote.
C27_Witness ==
    /\ call.op = "Put"
    /\ NormalForm(call.query) # <<>>
    /\ call.swept \ {NormalForm(call.query)} # {}
    /\ NormalForm(call.query) \in DOMAIN entries

\* What C28 says of a Put step that writes key k.
C28_Body(k) ==
    /\ k \in DOMAIN entries'
    /\ Value(heap', entries'[k].results) = Returned
    /\ entries'[k].results # NilSlice => entries'[k].results # call'.results
    /\ entries'[k].createdAt = now
    /\ order'[Len(order')] = k
    /\ \A i \in 1..(Len(order') - 1) : order'[i] # k
    /\ \A e \in LiveKeys \ {k} :
          e \in DOMAIN entries' /\ CacheView'[e] = CacheView[e]
    /\ Cardinality({e \in DOMAIN entries' : now - entries'[e].createdAt < ttl})
          = Cardinality(LiveKeys)

\* C28 as stated: for every Put whose normalized key is in the map.
C28_Original ==
    [][(IsStoringPut /\ NormalForm(call'.query) \in DOMAIN entries)
          => C28_Body(NormalForm(call'.query))]_vars

\* C28: a Put whose normalized key has an unexpired entry stores a copy of
\* the results given, created now, makes the key the tail of the order, and
\* leaves every other unexpired entry as it was, the number of unexpired
\* entries unchanged; it evicts nothing for capacity.
C28_PutUpdates ==
    [][(IsStoringPut /\ Live(NormalForm(call'.query)))
          => /\ C28_Body(NormalForm(call'.query))
             /\ call'.updated
             /\ call'.evicted = {}]_vars

\* A Put has updated an entry of a full cache with two results: the key
\* was in the map after the sweep and is now the tail, behind an entry
\* stored earlier.
C28_Witness ==
    /\ call.op = "Put"
    /\ call.updated
    /\ call.pos = 0
    /\ Len(order) = 2
    /\ order[2] = NormalForm(call.query)
    /\ entries[order[1]].createdAt < now
    /\ Len(Value(heap, call.results)) = 2

\* What call c would return had its units' outcomes, the same ones, reached
\* the collector in the order p.
Alternative(c, p) ==
    LET full == StableSortDesc(ConcatOk(c, p))
    IN IF sa[c].limit > 0 /\ Len(full) > sa[c].limit
       THEN SubSeq(full, 1, sa[c].limit)
       ELSE full

\* The two sequences hold the same results, each as many times.
Occurrences(seq, x) == Cardinality({k \in 1..Len(seq) : seq[k] = x})
SameBag(seq, alt) ==
    \A x \in Range(seq) \cup Range(alt) : Occurrences(seq, x) = Occurrences(alt, x)

\* C29 as stated: whatever the order in which the backends complete, the
\* call returns the same multiset of results, truncated or not.
C29_Original ==
    \A c \in Calls :
        (FannedOut(c) /\ sa[c].ret.err = "nil") =>
            \A p \in IterationOrders(DOMAIN sa[c].units) :
                SameBag(sa[c].ret.results, Alternative(c, p))

\* C29: whatever the order in which the backends complete, the call returns
\* as many results with the same scores at the same places; when the limit
\* does not truncate the merge the results are the same multiset, so they
\* differ at most in the order of results of equal score; when it truncates,
\* a result returned under one order and not under the other has the lowest
\* score returned.
C29_CompletionOrder ==
    \A c \in Calls :
        (FannedOut(c) /\ sa[c].ret.err = "nil") =>
            \A p \in IterationOrders(DOMAIN sa[c].units) :
                LET res == sa[c].ret.results
                    alt == Alternative(c, p)
                IN /\ Len(res) = Len(alt)
                   /\ \A k \in 1..Len(res) : res[k].Score = alt[k].Score
                   /\ (sa[c].limit <= 0 \/ Len(sa[c].merged) <= sa[c].limit)
                         => SameBag(res, alt)
                   /\ \A x \in Range(res) \cup Range(alt) :
                         Occurrences(res, x) # Occurrences(alt, x)
                             => x.Score = res[Len(res)].Score

\* With limit 1, the second backend completed first and the call returned
\* its result c; under the other order it would have returned b, of the
\* same score, from the first backend.
C29_Witness ==
    \E c \in Calls :
        /\ FannedOut(c)
        /\ sa[c].ret.err = "nil"
        /\ sa[c].limit = 1
        /\ sa[c].regs = <<1, 2>>
        /\ sa[c].received = <<2, 1>>
        /\ sa[c].ret.results = <<BackendResults(2)[1]>>
        /\ Alternative(c, <<1, 2>>) = <<BackendResults(1)[2]>>

\* Unit i of call c has taken a slot.
Acquired(c, i) ==
    sa[c].units[i].pc = "search" \/ sa[c].units[i].outcome \in {"ok", "failed"}

\* C30: within a SearchAll call the Search of each entry of the snapshot is
\* invoked once when its unit has taken a slot and not at all before, nor
\* when the unit reported the cancellation; the count rises only in the step
\* that takes the slot, and never after the Search failed.
C30_SearchInvokedAtMostOnce ==
    /\ [](\A c \in Calls : \A i \in DOMAIN sa[c].units :
            /\ sa[c].invoked[i] = IF Acquired(c, i) THEN 1 ELSE 0
            /\ sa[c].units[i].outcome = "canceled" => sa[c].invoked[i] = 0)
    /\ [][\A c \in Calls :
            (sa[c].pc = "collect" /\ sa'[c].pc \in {"collect", "returned"}) =>
                \A i \in DOMAIN sa[c].units :
                    /\ sa'[c].invoked[i] # sa[c].invoked[i] =>
                          /\ sa[c].units[i].pc = "select"
                          /\ sa'[c].units[i].pc = "search"
                          /\ sa[c].invoked[i] = 0
                    /\ sa[c].units[i].outcome = "failed" =>
                          /\ sa'[c].invoked[i] = 1
                          /\ sa'[c].units[i].outcome = "failed"
                          /\ sa'[c].units[i].pc \in {"deferred", "done"}]_vars

\* A call has returned after one Search failed, invoked once, and the other
\* unit reported the cancellation, its Search never invoked.
C30_Witness ==
    \E c \in Calls : \E i, j \in DOMAIN sa[c].units :
        /\ FannedOut(c)
        /\ sa[c].units[i].outcome = "failed"
        /\ sa[c].invoked[i] = 1
        /\ sa[c].units[j].outcome = "canceled"
        /\ sa[c].invoked[j] = 0


\* The log records unit i of call c wrote, and the record of its failure.
LogOf(c, i) == {l \in sa[c].logged : l.by = i}
FailureRecord(c, i) ==
    [by |-> i, registry |-> BackendName(sa[c].regs[i]), error |-> ErrOf(c, i)]

\* The units of call c that reported something else than results.
FailureUnits(c) ==
    {i \in DOMAIN sa[c].units : sa[c].units[i].outcome \in {"failed", "canceled"}}

\* A failure of one unit leaves its siblings alone: the step in which a unit
\* reports a failure changes no other unit, no count of Search calls, not the
\* context of the call and no other call; beside a unit that failed, a
\* sibling that is searching can deliver its outcome, a sibling at the select
\* can take a free slot; and a call returns only with one outcome of every
\* unit collected, every Search invoked when the context was never cancelled.
SiblingsGoOn ==
    /\ [](\A c \in Calls : \A j \in DOMAIN sa[c].units :
            /\ (sa[c].pc = "collect" /\ Quiet /\ FailureUnits(c) \ {j} # {}) =>
                  /\ sa[c].units[j].pc = "search" =>
                        ENABLED UnitSearchReturns(c, j, TRUE)
                  /\ (sa[c].units[j].pc = "select" /\ sa[c].sem < maxConcurrent)
                        => ENABLED UnitAcquire(c, j)
            /\ FannedOut(c) =>
                  /\ Cardinality({k \in 1..Len(sa[c].received) :
                                     sa[c].received[k] = j}) = 1
                  /\ sa[c].units[j].outcome # "none"
                  /\ ~sa[c].ctxDone => sa[c].invoked[j] = 1)
    /\ [][\A c \in Calls : \A i \in DOMAIN sa[c].units :
            (sa[c].pc = "collect" /\ sa[c].units[i].outcome = "none"
              /\ sa'[c].pc = "collect"
              /\ sa'[c].units[i].outcome \in {"failed", "canceled"}) =>
                /\ \A j \in DOMAIN sa[c].units \ {i} :
                      sa'[c].units[j] = sa[c].units[j]
                /\ sa'[c].invoked = sa[c].invoked
                /\ sa'[c].ctxDone = sa[c].ctxDone
                /\ sa'[c].sem = sa[c].sem
                /\ \A d \in Calls \ {c} : sa'[d] = sa[d]]_vars

\* C31 as claimed: every unit that reports a failure outcome, the
\* cancellation included, has written a log record with the name of its
\* backend and the error, and the failure leaves the sibling units alone.
C31_Original ==
    /\ [](\A c \in Calls : \A i \in FailureUnits(c) :
            FailureRecord(c, i) \in sa[c].logged)
    /\ SiblingsGoOn

\* C31 for the failures the code logs: a unit has written a log record
\* exactly when its Search returned an error, the record carries the name of
\* its backend and that error, a unit that reported the cancellation at the
\* select has written none, and a failure of one unit does not stop or
\* cancel a sibling: every other outcome is still produced and collected.
C31_FailureLogged ==
    /\ [](\A c \in Calls : \A i \in DOMAIN sa[c].units :
            LogOf(c, i) = IF sa[c].units[i].outcome = "failed"
                          THEN {FailureRecord(c, i)} ELSE {})
    /\ SiblingsGoOn

\* A call has returned the results of one backend after the Search of the
\* other failed, and the log holds the record of that failure.
C31_Witness ==
    \E c \in Calls : \E i, j \in DOMAIN sa[c].units :
        /\ FannedOut(c)
        /\ ~sa[c].ctxDone
        /\ sa[c].units[i].outcome = "failed"
        /\ sa[c].logged = {[by |-> i, registry |-> "clawhub",
                            error |-> [kind |-> "failed", of |-> sa[c].regs[i]]]}
        /\ sa[c].units[j].outcome = "ok"
        /\ sa[c].invoked[j] = 1
        /\ sa[c].ret.results # <<>>


\* The Search calls in flight on the manager, over all the SearchAll calls,
\* and the SearchAll calls that have made their semaphore.
RECURSIVE InFlightOver(_)
InFlightOver(S) ==
    IF S = {} THEN 0
    ELSE LET c == CHOOSE d \in S : TRUE
         IN Cardinality(InFlight(c)) + InFlightOver(S \ {c})
Dispatched == {c \in Calls : sa[c].pc = "collect"}

\* C32 as claimed: at any instant the number of Search calls in flight on
\* the manager, counted over all the running SearchAll calls, is at most
\* maxConcurrent.
C32_Original == InFlightOver(Calls) <= maxConcurrent

\* C32 for the semaphore the code makes: every SearchAll call has a
\* semaphore of its own, which counts the slots its own units hold and
\* nothing of another call, so the Search calls in flight on the manager are
\* bounded by maxConcurrent for each running call, not for the manager.
C32_BoundPerCall ==
    /\ \A c \in Calls :
          /\ sa[c].sem = Cardinality(Holders(c))
          /\ InFlight(c) \subseteq Holders(c)
          /\ sa[c].sem <= maxConcurrent
    /\ InFlightOver(Calls) <= maxConcurrent * Cardinality(Dispatched)

\* With maxConcurrent = 1 two SearchAll calls each have a Search in flight.
C32_Witness ==
    /\ maxConcurrent = 1
    /\ \E c, d \in Calls :
          /\ c # d
          /\ InFlight(c) # {}
          /\ InFlight(d) # {}
          /\ sa[c].sem = 1
          /\ sa[d].sem = 1


\* C33: a Get, hit or miss, adds no key and deletes none, an expired entry
\* it met included, so Len is what it was; it changes no entry's query,
\* trigrams, results or creation time; a hit comes from an entry whose
\* creation time is less than ttl ago; and a creation time changes only when
\* a Put stores that key, so the hits do not extend the life of an entry.
C33_GetKeepsEntries ==
    /\ [][IsGet =>
            /\ DOMAIN entries' = DOMAIN entries
            /\ CacheLen' = CacheLen
            /\ \A k \in DOMAIN entries :
                  /\ entries'[k].query = entries[k].query
                  /\ entries'[k].trigrams = entries[k].trigrams
                  /\ entries'[k].createdAt = entries[k].createdAt
                  /\ Value(heap', entries'[k].results)
                        = Value(heap, entries[k].results)
            /\ call'.hit =>
                  /\ call'.from \in DOMAIN entries
                  /\ now - entries[call'.from].createdAt < ttl
                  /\ Returned = Value(heap, entries[call'.from].results)]_vars
    /\ [][\A k \in DOMAIN entries \cap DOMAIN entries' :
            entries'[k].createdAt # entries[k].createdAt =>
                /\ IsPut
                /\ NormalForm(call'.query) = k
                /\ entries'[k].createdAt = now]_vars

\* A Get of "ab" has missed and left the expired entry "ab" in the map,
\* after an earlier Get had hit that entry: "ab" is behind the younger entry
\* in the recency order.
C33_Witness ==
    /\ call.op = "Get"
    /\ ~call.hit
    /\ NormalForm(call.query) = qAB
    /\ DOMAIN entries = {qAB, qABCDEFGHI}
    /\ now - entries[qAB].createdAt >= ttl
    /\ entries[qAB].createdAt < entries[qABCDEFGHI].createdAt
    /\ order = <<qABCDEFGHI, qAB>>
    /\ CacheLen = 2


\* C34: when an unexpired entry is stored under the normal form of q, Get(q)
\* is a hit from that entry and returns its results, whatever other
\* unexpired entries there are, those with the trigram set of q included.
C34_ExactEntryWins ==
    [][\A k \in DOMAIN entries :
          (IsGet /\ NormalForm(call'.query) = k /\ Live(k)) =>
              /\ call'.hit
              /\ call'.from = k
              /\ Returned = StoredVal(k)
              /\ Returned = putVal[k]]_vars

\* Get("ab") has returned the two results stored under "ab" while the
\* unexpired entry "b", which has the same (empty) trigram set, holds none.
C34_Witness ==
    /\ call.op = "Get"
    /\ call.hit
    /\ call.from = qAB
    /\ NormalForm(call.query) = qAB
    /\ qB \in LiveKeys
    /\ TrigramSet(qB) = TrigramSet(qAB)
    /\ StoredVal(qB) = <<>>
    /\ Len(Value(heap, call.results)) = 2


\* The unexpired entries whose key is shorter than 3 characters.
ShortLiveKeys == {k \in LiveKeys : Len(k) < 3}

\* A Get of a non-empty query shorter than 3 characters, no entry stored
\* under it, while the entry q1, another key shorter than 3 characters, is
\* unexpired.
ShortGet(q1) ==
    /\ IsGet
    /\ NormalForm(call'.query) # <<>>
    /\ Len(NormalForm(call'.query)) < 3
    /\ NormalForm(call'.query) \notin DOMAIN entries
    /\ q1 # NormalForm(call'.query)
    /\ q1 \in ShortLiveKeys

\* C35 as claimed: such a Get is a hit that returns the results put under q1.
C35_Original ==
    [][\A q1 \in DOMAIN entries :
          ShortGet(q1) => (call'.hit /\ Returned = putVal[q1])]_vars

\* C35 amended: such a Get is a hit that returns the results put under an
\* unexpired key shorter than 3 characters; they are those of q1 when q1 is
\* the only such key.
C35_ShortQueriesHit ==
    [][\A q1 \in DOMAIN entries :
          ShortGet(q1) =>
              /\ call'.hit
              /\ call'.from \in ShortLiveKeys
              /\ Returned = putVal[call'.from]
              /\ ShortLiveKeys = {q1} =>
                    (call'.from = q1 /\ Returned = putVal[q1])]_vars

\* Get("a") has returned the two results put under "ab", the only unexpired
\* key shorter than 3 characters, beside a longer unexpired key.
C35_Witness ==
    /\ call.op = "Get"
    /\ call.hit
    /\ NormalForm(call.query) = qA
    /\ qA \notin DOMAIN entries
    /\ call.from = qAB
    /\ ShortLiveKeys = {qAB}
    /\ Cardinality(LiveKeys) = 2
    /\ Len(Value(heap, call.results)) = 2


\* The unexpired entries a similarity scan for q may end on: those of the
\* highest similarity to q, when that is at or above the threshold.
Candidates(q) ==
    {k \in LiveKeys :
        /\ AtLeast(Sim(q, k), <<7, 10>>)
        /\ \A j \in LiveKeys : AtLeast(Sim(q, k), Sim(q, j))}

\* What a Get of q may return and the recency order it may leave: a miss for
\* the empty query, the entry of q when it is unexpired, else any of the
\* candidates of the scan, else a miss.
HitOutcome(k) ==
    [hit |-> TRUE, from |-> k, val |-> StoredVal(k), order |-> Touched(order, k)]
MissOutcome == [hit |-> FALSE, from |-> <<>>, val |-> <<>>, order |-> order]
Outcomes(q) ==
    IF NormalForm(q) = <<>> THEN {MissOutcome}
    ELSE IF Live(NormalForm(q)) THEN {HitOutcome(NormalForm(q))}
    ELSE IF Candidates(q) = {} THEN {MissOutcome}
    ELSE {HitOutcome(k) : k \in Candidates(q)}

\* C36 as claimed: what a Get returns and the recency order it leaves are
\* the only ones a Get of that query on that cache at that time can produce.
C36_Original ==
    [][IsGet =>
          \A o \in Outcomes(call'.query) :
              /\ call'.hit = o.hit
              /\ Returned = o.val
              /\ order' = o.order]_vars

\* The entries the scan of Get for q ends on and accepts, over the orders in
\* which the range over the map may visit the entries.
ScanEnds(q) ==
    {best.bestEntry.query :
        best \in {b \in {scanEntries(it, 1, buildTrigrams(normalizeQuery(q)),
                                     NilEntry, <<0, 1>>) :
                            it \in IterationOrders(DOMAIN entries)} :
                     /\ SimGE(b.bestSim, similarityThreshold)
                     /\ b.bestEntry # NilEntry}}

\* C36 for the scan the code runs: a Get produces one of the outcomes above,
\* which is the only one unless several unexpired entries tie for the highest
\* similarity to a query that has no unexpired entry of its own; and then
\* every one of the tied entries is the one the scan ends on for some order
\* of the range over the map.
C36_DeterministicButForTies ==
    /\ [](\A q \in GetQueries :
            (NormalForm(q) # <<>> /\ ~Live(NormalForm(q))) =>
                ScanEnds(q) = Candidates(q))
    /\ [][IsGet =>
            /\ [hit |-> call'.hit, from |-> call'.from, val |-> Returned,
                order |-> order'] \in Outcomes(call'.query)
            /\ (Live(NormalForm(call'.query))
                 \/ Cardinality(Candidates(call'.query)) <= 1) =>
                   Cardinality(Outcomes(call'.query)) = 1]_vars

\* Get("a") has returned the results of "ab" and moved it to the end of the
\* recency order while the unexpired entry "b", with other results, had the
\* same similarity 1 to the query.
C36_Witness ==
    /\ call.op = "Get"
    /\ call.hit
    /\ NormalForm(call.query) = qA
    /\ call.from = qAB
    /\ LiveKeys = {qAB, qB}
    /\ Sim(qA, qB) = Sim(qA, qAB)
    /\ StoredVal(qB) # StoredVal(qAB)
    /\ order = <<qB, qAB>>
    /\ call.pos = 1


\* What C37 says of a Put: the unexpired entries it removes are exactly one
\* when the unexpired entries, those the sweep leaves, fill the cache, and
\* none otherwise.
C37_Body ==
    LET removed == LiveKeys \ DOMAIN entries'
    IN Cardinality(removed) =
           IF Cardinality(LiveKeys) = maxEntries THEN 1 ELSE 0

\* C37 as claimed: a Put of a key that is not present removes one unexpired
\* entry when the entries left by the sweep are maxEntries, and none
\* otherwise.
C37_Original ==
    [][(IsPut /\ NormalForm(call'.query) \notin DOMAIN entries) => C37_Body]_vars

\* C37 amended: the same for a key whose normal form is not empty; and such
\* a Put leaves no entry that was expired.
C37_CapacityEviction ==
    [][(/\ IsPut
        /\ NormalForm(call'.query) # <<>>
        /\ NormalForm(call'.query) \notin DOMAIN entries)
       => /\ C37_Body
          /\ (DOMAIN entries \ LiveKeys) \cap DOMAIN entries' = {}]_vars

\* A Put of a new key into a cache that was full, one entry expired: the
\* expired entry was swept and the unexpired one kept.
C37_Witness ==
    /\ call.op = "Put"
    /\ ~call.updated
    /\ Cardinality(call.swept) = 1
    /\ NormalForm(call.query) \notin call.swept
    /\ call.evicted = {}
    /\ CacheLen = maxEntries
    /\ maxEntries = 2


\* Call c has taken its snapshot and not yet given its outcome away.
Snapshotted(c) == sa[c].pc \in {"snapshot", "collect", "returned"}

\* C38: the registries only grow, by one handle at the end, in a step that
\* is neither of a GetRegistry nor of a SearchAll; the snapshot of a call is
\* the collection as it was when the call took it and stays what it is while
\* the call runs, so it is the front part of the collection; the units of
\* the call are those of its snapshot, one each, whatever was registered
\* since; and a call that was not cancelled returns with the Search of every
\* entry of its snapshot invoked once.
C38_AppendOnlySnapshot ==
    /\ [](\A c \in Calls :
            /\ Snapshotted(c) =>
                  /\ Len(sa[c].regs) <= Len(registries)
                  /\ sa[c].regs = SubSeq(registries, 1, Len(sa[c].regs))
            /\ sa[c].pc = "collect" =>
                  /\ DOMAIN sa[c].units = DOMAIN sa[c].regs
                  /\ DOMAIN sa[c].invoked = DOMAIN sa[c].regs
            /\ (FannedOut(c) /\ ~sa[c].ctxDone) =>
                  \A i \in DOMAIN sa[c].regs : sa[c].invoked[i] = 1)
    /\ [][/\ registries' # registries =>
                /\ \E r \in Backends : registries' = Append(registries, r)
                /\ sa' = sa
                /\ lookup' = lookup
          /\ \A c \in Calls :
                /\ (sa[c].pc = "idle" /\ sa'[c].pc # "idle") =>
                      sa'[c].regs = registries
                /\ (Snapshotted(c) /\ Snapshotted(c)') =>
                      sa'[c].regs = sa[c].regs]_vars

\* A call that took its snapshot of one backend has returned, its Search
\* invoked once, and a second backend was registered in the meantime.
C38_Witness ==
    \E c \in Calls :
        /\ FannedOut(c)
        /\ ~sa[c].ctxDone
        /\ Len(sa[c].regs) = 1
        /\ sa[c].invoked = <<1>>
        /\ Len(registries) = 2
        /\ registries[2] # registries[1]
        /\ sa[c].received = <<1>>


\* C39: a SearchAll call returns an error exactly when its snapshot is empty
\* or none of its units reported success; the error is then the one of that
\* case and there are no results; and a call whose units all succeeded
\* without results returns no error and no results.
C39_ErrorIffNoSuccess ==
    \A c \in Calls :
        sa[c].pc = "returned" =>
            /\ sa[c].ret.err # "nil" <=> (sa[c].regs = <<>> \/ OkUnits(c) = {})
            /\ sa[c].ret.err = "no registries configured" <=> sa[c].regs = <<>>
            /\ sa[c].ret.err = "all registries failed" <=>
                  (sa[c].regs # <<>> /\ OkUnits(c) = {})
            /\ sa[c].ret.err # "nil" => sa[c].ret.results = <<>>
            /\ (/\ sa[c].regs # <<>>
                /\ OkUnits(c) = DOMAIN sa[c].regs
                /\ \A i \in OkUnits(c) : BackendResults(sa[c].regs[i]) = <<>>)
               => (sa[c].ret.err = "nil" /\ sa[c].ret.results = <<>>)

\* A call over two backends that both succeeded with no results has
\* returned no error and no results.
C39_Witness ==
    \E c \in Calls :
        /\ FannedOut(c)
        /\ Len(sa[c].regs) = 2
        /\ OkUnits(c) = {1, 2}
        /\ \A i \in OkUnits(c) : BackendResults(sa[c].regs[i]) = <<>>
        /\ sa[c].ret.err = "nil"
        /\ sa[c].ret.results = <<>>
        /\ sa[c].lastErr = NoErr


\* Truncate was applied to s and maxLen and returned out.
TruncateOf(s, maxLen, out) ==
    eval = [fn |-> "Truncate", args |-> <<s, maxLen>>, out |-> out]
EndsWithEllipsis(out) ==
    Len(out) >= 3 /\ SubSeq(out, Len(out) - 2, Len(out)) = <<46, 46, 46>>

SpecFunctions == Init /\ [][FunctionsNext]_vars

\* The manager, beside a cache nobody calls.
InitRegistry == CacheInit /\ RegistryInit /\ eval = NoEval
SpecRegistry == InitRegistry /\ [][RegistryNext]_vars

\* One SearchAll call on a manager whose registries were all added before:
\* every goroutine that can take a step takes one in the end (the Go
\* scheduler), every Search that was started returns, and the caller takes
\* the outcome of the call when it returned.  Nothing makes the caller start
\* a call or cancel one.  A call makes its own sem and resultsCh and shares
\* with other calls only the read lock of the snapshot, which readers do not
\* hold against each other, so the call is followed alone.
SearchingCalls == {c \in Calls : \A d \in Calls : c <= d}
InitSearching ==
    /\ CacheInit
    /\ registries \in UNION {[1..n -> Backends] : n \in 0..MaxRegistries}
    /\ maxConcurrent \in {NewRegistryManagerFromConfig(m).maxConcurrent :
                             m \in ConcurrencySettings}
    /\ mu = {}
    /\ sa = [c \in Calls |-> IdleCall]
    /\ lookup = NoLookup
    /\ eval = NoEval
SearchingNext ==
    \E c \in SearchingCalls :
        \/ \E limit \in Limits : SearchAllSnapshot(c, limit)
        \/ SearchAllDispatch(c)
        \/ Cancel(c)
        \/ \E i \in 1..MaxRegistries : UnitAcquire(c, i)
        \/ \E i \in 1..MaxRegistries : UnitCancelled(c, i)
        \/ \E i \in 1..MaxRegistries, ok \in BOOLEAN :
               UnitSearchReturns(c, i, ok)
        \/ \E i \in 1..MaxRegistries : UnitExit(c, i)
        \/ CloseResults(c)
        \/ Collect(c)
        \/ SearchAllReturn(c)
        \/ Finish(c)
SearchingFairness ==
    \A c \in SearchingCalls :
        /\ WF_vars(SearchAllDispatch(c))
        /\ WF_vars(CloseResults(c))
        /\ WF_vars(Collect(c))
        /\ WF_vars(SearchAllReturn(c))
        /\ WF_vars(Finish(c))
        /\ \A i \in 1..MaxRegistries :
              /\ WF_vars(UnitAcquire(c, i) \/ UnitCancelled(c, i))
              /\ WF_vars(\E ok \in BOOLEAN : UnitSearchReturns(c, i, ok))
              /\ WF_vars(UnitExit(c, i))
SpecSearching == InitSearching /\ [][SearchingNext]_vars /\ SearchingFairness

====
